---- MODULE Spec2Model ----
(***************************************************************************)
(* A model of the extraction orchestration layer of exactextract's Python  *)
(* bindings: raster input normalisation and band naming, the operation     *)
(* builder (prep_ops), the CRS compatibility check, and the driver         *)
(* exact_extract.                                                          *)
(*                                                                         *)
(* Strings are modelled as sequences of lexical tokens: the name           *)
(* "a_w1_weighted_mean" is <<"a","_","w1","_","weighted","_","mean">>.     *)
(* Concatenation, str.replace, os.path.basename and os.path.splitext are   *)
(* computed on those sequences the way Python computes them on characters. *)
(***************************************************************************)
EXTENDS Integers, Sequences, FiniteSets, TLC

VARIABLES
    names_call,     \* last make_raster_names call: [root, nbands]
    names_ret,      \* its return value: a sequence of names
    praster_call,   \* last prep_raster call: [rast, role, libs]
    praster_ret,    \* its outcome: [err, sources]
    ops_call,       \* last prep_ops call: [stats, values, weights, add_unique]
    ops_ret,        \* its outcome: [err, msg, ops]
    pyop_call,      \* last direct PythonOperation(...) construction: [nargs, raster]
    pyop_ret,       \* its outcome: [err, msg, ops]
    x_in,           \* exact_extract: the arguments of the call and its environment
    x_pc,           \* exact_extract: where the call stands
    x_ops,          \* exact_extract: the operations prep_ops returned
    x_err,          \* exact_extract: the exception that left the call, [err, msg]
    x_i,            \* warn_on_crs_mismatch: index of the next operation of the loop
    x_check,        \* warn_on_crs_mismatch: [vec, weights], the two check_* flags
    x_warnings,     \* the warnings emitted so far, in order
    x_parsed,       \* the pairs <<a, b>> whose comparison reached a parsing library
    x_out,          \* what the call did to its writer and processor: [writer,
                    \* processor, show, fn, chunks, order, fracs, log, written,
                    \* finished, returned]
    memo,           \* the functools.cache of crs_matches: a set of [a, b, val]
    wr,             \* a Writer object: its backend and the attributes of its instance
    wr_calls,       \* the write calls made on it so far: a sequence of
                    \* [rec, err, declared]
    cm_env,         \* threads calling crs_matches: the process, [on, lib, exceptions]
    cm_pc,          \* ... where each thread stands: "idle", "body" or "store"
    cm_arg,         \* ... the pair <<wkt_a, wkt_b>> each thread was called with
    cm_res,         \* ... the value the body gave each thread
    cm_seen,        \* ... what the calls returned so far: a set of [a, b, val]
    cm_n,           \* ... how many calls were made
    rd_src,         \* a RasterSource object: [kind, mat, scale, offset, nodata]
    rd_out,         \* its last read_window call: [win, res]
    pv_in,          \* prep_vec: the caller's argument and the process, [vec, libs]
    pv_pc,          \* prep_vec: the probe the call stands before, or how it ended
    pv_vec,         \* prep_vec: the local variable vec
    pv_seen,        \* prep_vec: what each probe made so far found in vec
    pv_ret          \* prep_vec: its outcome, [err, source]

varsNames == <<names_call, names_ret, praster_call, praster_ret>>
varsOps == <<ops_call, ops_ret, pyop_call, pyop_ret>>
varsEx == <<x_in, x_pc, x_ops, x_err, x_i, x_check, x_warnings, x_parsed, x_out, memo>>
varsWr == <<wr, wr_calls>>
varsCm == <<cm_env, cm_pc, cm_arg, cm_res, cm_seen, cm_n>>
varsRd == <<rd_src, rd_out>>
varsPv == <<pv_in, pv_pc, pv_vec, pv_seen, pv_ret>>
vars == <<names_call, names_ret, praster_call, praster_ret,
          ops_call, ops_ret, pyop_call, pyop_ret,
          x_in, x_pc, x_ops, x_err, x_i, x_check, x_warnings, x_parsed, x_out, memo,
          wr, wr_calls, cm_env, cm_pc, cm_arg, cm_res, cm_seen, cm_n,
          rd_src, rd_out, pv_in, pv_pc, pv_vec, pv_seen, pv_ret>>

(***************************************************************************)
(* Bounds of the model.                                                    *)
(***************************************************************************)
MaxBands == 3
MaxList == 2
MaxValues == 3
MaxWeights == 2
MaxArgs == 4

(***************************************************************************)
(* Strings as token sequences.                                             *)
(***************************************************************************)
Str(tok) == <<tok>>
Empty == <<>>
US == <<"_">>

\* f"{i + 1}" for a band index: the decimal text of a positive integer
IntStr(n) == <<ToString(n)>>

RECURSIVE SeqConcat(_)
SeqConcat(ss) == IF ss = <<>> THEN <<>> ELSE Head(ss) \o SeqConcat(Tail(ss))

Max2(a, b) == IF a >= b THEN a ELSE b

\* Python's str.replace(old, new): every non-overlapping occurrence of old,
\* scanning left to right, is replaced by new (old is never empty here).
RECURSIVE StrReplace(_, _, _)
StrReplace(s, old, new) ==
    IF Len(s) < Len(old) THEN s
    ELSE IF SubSeq(s, 1, Len(old)) = old
         THEN new \o StrReplace(SubSeq(s, Len(old) + 1, Len(s)), old, new)
         ELSE <<Head(s)>> \o StrReplace(Tail(s), old, new)

\* "old in s"
RECURSIVE StrContains(_, _)
StrContains(s, old) ==
    IF Len(s) < Len(old) THEN FALSE
    ELSE SubSeq(s, 1, Len(old)) = old \/ StrContains(Tail(s), old)

\* positions of a token in a string
Positions(s, tok) == {i \in 1..Len(s) : s[i] = tok}
SetMax(S) == CHOOSE x \in S : \A y \in S : y <= x

\* os.path.basename: everything after the last "/"
Basename(p) ==
    IF Positions(p, "/") = {} THEN p
    ELSE SubSeq(p, SetMax(Positions(p, "/")) + 1, Len(p))

\* os.path.splitext(p)[0] for a p without separators: cut at the last "."
\* unless only dots precede it
SplitextRoot(p) ==
    IF Positions(p, ".") = {} THEN p
    ELSE LET d == SetMax(Positions(p, ".")) IN
         IF \E i \in 1..(d - 1) : p[i] # "." THEN SubSeq(p, 1, d - 1) ELSE p

(***************************************************************************)
(* make_raster_names                                                       *)
(***************************************************************************)
MakeRasterNames_offByOne(root, nbands) ==
    IF root # Empty
    THEN IF nbands > 1
         THEN [i \in 1..nbands |-> root \o US \o Str("band") \o US \o IntStr(i - 1)]
         ELSE <<root>>
    ELSE IF nbands > 1
         THEN [i \in 1..nbands |-> Str("band") \o US \o IntStr(i - 1)]
         ELSE <<Empty>>

MakeRasterNames(root, nbands) ==
    IF root # Empty
    THEN IF nbands > 1
         THEN [i \in 1..nbands |-> root \o US \o Str("band") \o US \o IntStr(i)]
         ELSE <<root>>
    ELSE IF nbands > 1
         THEN [i \in 1..nbands |-> Str("band") \o US \o IntStr(i)]
         ELSE <<Empty>>

(***************************************************************************)
(* Raster inputs and prep_raster                                           *)
(***************************************************************************)
NoneVal == [kind |-> "none"]
Source(name, srs) == [kind |-> "source", name |-> name, srs |-> srs]
\* what a loader's RasterSource constructor does with name=...: "if name: set_name"
LoadedSource(name, srs) == Source(name, srs)

Ok(sources) == [err |-> "", sources |-> sources]
Fail(msg) == [err |-> msg, sources |-> <<>>]

IsPath(r) == r.kind = "path"

\* An opened dataset (or data array) of library lib: one source per band, or,
\* for a container of sub-variables, the bands of every sub-variable named
\* from the variable (one level of recursion with name_root = varname).
FromDataset(ds, name_root) ==
    IF ds.nbands = 0 /\ ds.subs # <<>>
    THEN SeqConcat([k \in 1..Len(ds.subs) |->
            LET names == MakeRasterNames(ds.subs[k].var, ds.subs[k].nbands)
            IN  [i \in 1..ds.subs[k].nbands |-> LoadedSource(names[i], ds.srs)]])
    ELSE LET names == MakeRasterNames(name_root, ds.nbands)
         IN  [i \in 1..ds.nbands |-> LoadedSource(names[i], ds.srs)]

\* prep_raster_gdal / prep_raster_rasterio: None (here <<>>) when the library
\* is not installed or the input is not one of its types
PrepRasterWith(lib, rast, name_root, libs) ==
    IF lib \notin libs THEN <<>>
    ELSE IF IsPath(rast) THEN FromDataset(rast, name_root)
    ELSE IF rast.kind = "dataset" /\ rast.lib = lib THEN FromDataset(rast, name_root)
    ELSE <<>>

\* prep_raster_xarray: opens no paths
PrepRasterXarray(rast, name_root, libs) ==
    IF "xarray" \notin libs THEN <<>>
    ELSE IF rast.kind = "dataset" /\ rast.lib = "xarray" THEN FromDataset(rast, name_root)
    ELSE <<>>

RECURSIVE PrepRaster(_, _, _)
PrepRaster(rast, name_root, libs) ==
    IF rast.kind = "none" THEN Ok(<<NoneVal>>)
    ELSE IF rast.kind = "source" THEN Ok(<<rast>>)
    ELSE IF rast.kind = "list" THEN
        LET n == Len(rast.items)
            allPaths == \A i \in 1..n : IsPath(rast.items[i])
            sub == [i \in 1..n |->
                      IF allPaths
                      THEN PrepRaster(rast.items[i],
                                      SplitextRoot(Basename(rast.items[i].path)), libs)
                      ELSE PrepRaster(rast.items[i], Empty, libs)]
        IN  IF \E i \in 1..n : sub[i].err # ""
            THEN Fail((sub[CHOOSE i \in 1..n :
                            sub[i].err # "" /\ \A j \in 1..(i - 1) : sub[j].err = ""]).err)
            ELSE Ok(SeqConcat([i \in 1..n |-> sub[i].sources]))
    ELSE LET g == PrepRasterWith("gdal", rast, name_root, libs)
             r == PrepRasterWith("rasterio", rast, name_root, libs)
             x == PrepRasterXarray(rast, name_root, libs)
         IN  IF g # <<>> THEN Ok(g)
             ELSE IF r # <<>> THEN Ok(r)
             ELSE IF x # <<>> THEN Ok(x)
             ELSE Fail("Unhandled raster datatype")

\* exact_extract: rast = prep_raster(rast); weights = prep_raster(weights, name_root="weight")
RoleRoot(role) == IF role = "weights" THEN Str("weight") ELSE Empty

(***************************************************************************)
(* Operations                                                              *)
(*                                                                         *)
(* An Operation is [py, stat, name, values, weights, weighted]: py tells a *)
(* PythonOperation from a built-in one, weights is a source or NoneVal,    *)
(* weighted is the flag PythonOperation.__init__ computes (FALSE, unused,  *)
(* for a built-in operation, whose weightedness follows from its stat).    *)
(***************************************************************************)
StatStr(stat) ==
    CASE stat = "count" -> <<"count">>
      [] stat = "mean" -> <<"mean">>
      [] stat = "sum" -> <<"sum">>
      [] stat = "variance" -> <<"variance">>
      [] stat = "frac" -> <<"frac">>
      [] stat = "unique" -> <<"unique">>
      [] stat = "weighted_sum" -> <<"weighted", "_", "sum">>
      [] stat = "weighted_mean" -> <<"weighted", "_", "mean">>
      [] stat = "weighted_frac" -> <<"weighted", "_", "frac">>

\* the engine's classification of built-in stats
Weighted(stat) == stat \in {"weighted_sum", "weighted_mean", "weighted_frac"}
RequiresVariance(stat) == stat \in {"variance"}

BuiltinOp(stat, name, values, weights) ==
    [py |-> FALSE, stat |-> stat, name |-> name, values |-> values,
     weights |-> weights, weighted |-> FALSE]

\* Operation.weighted() / Operation.requires_variance() as exact_extract reads them
OpWeighted(op) == IF op.py THEN op.weighted ELSE Weighted(op.stat)
OpRequiresVariance(op) == IF op.py THEN FALSE ELSE RequiresVariance(op.stat)

Raise(err, msg) == [err |-> err, msg |-> msg, ops |-> <<>>]
Return(ops) == [err |-> "", msg |-> <<>>, ops |-> ops]

\* PythonOperation.__init__: no arity check, weighted iff exactly 3 arguments
PythonOperation(fn, field_name, raster, weights) ==
    IF raster = NoneVal THEN Raise("TypeError", <<>>)
    ELSE Return(<<[py |-> TRUE, stat |-> "python", name |-> field_name, values |-> raster,
                   weights |-> weights, weighted |-> (fn.nargs = 3)]>>)

(***************************************************************************)
(* prepare_operations, change_stat and Operation.key() belong to the       *)
(* compiled engine; they are modelled from the design text (section 4.2)   *)
(* and from the field names the tests expect.                              *)
(***************************************************************************)
NoWeightsMsg == <<"No weights provided", " for weighted stat">>
BadLengthsMsg == <<"Value and weight sources must have one element or the same number">>

\* the i-th (value, weight) pair: zip, or recycle the side of length 1
PairValue(V, i) == IF Len(V) = 1 THEN V[1] ELSE V[i]
PairWeight(W, i) == IF W = <<>> THEN NoneVal ELSE IF Len(W) = 1 THEN W[1] ELSE W[i]
NPairs(V, W) == Max2(Len(V), Len(W))

JoinName(parts) ==
    LET ne == SelectSeq(parts, LAMBDA x : x # Empty)
    IN  SeqConcat([i \in 1..Len(ne) |-> IF i = 1 THEN ne[i] ELSE US \o ne[i]])

\* bare stat name (or alias) for a single pair, otherwise prefixed with the
\* value source's name and, for a weighted stat, the weight source's name
FieldName(stat, alias, v, w, full) ==
    LET base == IF alias # Empty THEN alias ELSE StatStr(stat)
    IN  IF ~full THEN base
        ELSE IF Weighted(stat) THEN JoinName(<<v.name, w.name, base>>)
        ELSE JoinName(<<v.name, base>>)

PrepareOperations(req, values, weights0) ==
    LET weights == SelectSeq(weights0, LAMBDA x : x # NoneVal)
        n == NPairs(values, weights)
    IN  IF req.kind = "explicit"
        THEN Return(<<BuiltinOp(req.stat,
                                FieldName(req.stat, Empty, req.values, req.weights, n > 1),
                                req.values, req.weights)>>)
        ELSE IF Weighted(req.stat) /\ weights = <<>>
        THEN Raise("RuntimeError", NoWeightsMsg)
        ELSE IF weights # <<>> /\ Len(weights) # Len(values)
                  /\ Len(weights) # 1 /\ Len(values) # 1
        THEN Raise("RuntimeError", BadLengthsMsg)
        ELSE Return([i \in 1..n |->
                BuiltinOp(req.stat,
                          FieldName(req.stat, req.alias, PairValue(values, i),
                                    PairWeight(weights, i), n > 1),
                          PairValue(values, i), PairWeight(weights, i))])

StrReq(stat, alias) == [kind |-> "str", stat |-> stat, alias |-> alias]
FnReq(fname, nargs) == [kind |-> "callable", fname |-> fname, nargs |-> nargs]
OpReq(op) == [kind |-> "op", op |-> op]
OtherReq == [kind |-> "other"]

ChangeStat(op, stat) ==
    [kind |-> "explicit", stat |-> stat, values |-> op.values, weights |-> op.weights]

Key(op) == <<op.values, op.weights>>

(***************************************************************************)
(* prep_ops                                                                *)
(***************************************************************************)
\* PythonOperation(...) for each dummy operation, in order; the first
\* constructor that raises ends the loop
RECURSIVE WrapPython_dropWeights(_, _, _)
WrapPython_dropWeights(fn, dummy_stat, dummies) ==
    IF dummies = <<>> THEN Return(<<>>)
    ELSE LET op == Head(dummies)
             one == PythonOperation(fn, StrReplace(op.name, StatStr(dummy_stat), fn.fname),
                                    op.values, NoneVal)
         IN  IF one.err # "" THEN one
             ELSE LET rest == WrapPython_dropWeights(fn, dummy_stat, Tail(dummies))
                  IN  IF rest.err # "" THEN rest ELSE Return(one.ops \o rest.ops)

RECURSIVE WrapPython(_, _, _)
WrapPython(fn, dummy_stat, dummies) ==
    IF dummies = <<>> THEN Return(<<>>)
    ELSE LET op == Head(dummies)
             one == PythonOperation(fn, StrReplace(op.name, StatStr(dummy_stat), fn.fname),
                                    op.values, op.weights)
         IN  IF one.err # "" THEN one
             ELSE LET rest == WrapPython(fn, dummy_stat, Tail(dummies))
                  IN  IF rest.err # "" THEN rest ELSE Return(one.ops \o rest.ops)

ArityMsg(fn) == <<"Summary operation ">> \o fn.fname \o <<" must take 2 or 3 arguments">>
MissingWeightsMsg(fn) ==
    <<"No weights provided", " but ">> \o fn.fname \o <<" expects 3 arguments">>

\* the body of the loop over stats, for one stat
PrepOneStat_swallow(stat, values, weights) ==
    IF stat.kind = "str" THEN PrepareOperations(stat, values, weights)
    ELSE IF stat.kind = "callable" THEN
        IF stat.nargs \notin {2, 3} THEN Raise("Exception", ArityMsg(stat))
        ELSE LET dummy_stat == IF stat.nargs = 3 THEN "weighted_sum" ELSE "count"
                 made == PrepareOperations(StrReq(dummy_stat, Empty), values, weights)
             IN  IF made.err = "RuntimeError" THEN Return(<<>>)
                 ELSE WrapPython(stat, dummy_stat, made.ops)
    ELSE IF stat.kind = "op" THEN Return(<<stat.op>>)
    ELSE Raise("ValueError", <<"Don't know how to handle stat">>)

PrepOneStat(stat, values, weights) ==
    IF stat.kind = "str" THEN PrepareOperations(stat, values, weights)
    ELSE IF stat.kind = "callable" THEN
        IF stat.nargs \notin {2, 3} THEN Raise("Exception", ArityMsg(stat))
        ELSE LET dummy_stat == IF stat.nargs = 3 THEN "weighted_sum" ELSE "count"
                 made == PrepareOperations(StrReq(dummy_stat, Empty), values, weights)
             IN  IF made.err = "RuntimeError"
                 THEN IF StrContains(made.msg, <<"No weights provided">>)
                      THEN Raise("Exception", MissingWeightsMsg(stat))
                      ELSE made
                 ELSE WrapPython(stat, dummy_stat, made.ops)
    ELSE IF stat.kind = "op" THEN Return(<<stat.op>>)
    ELSE Raise("ValueError", <<"Don't know how to handle stat">>)

\* the loop with each stat's operations put in front of the earlier ones
RECURSIVE PrepLoop_newestFirst(_, _, _)
PrepLoop_newestFirst(stats, values, weights) ==
    IF stats = <<>> THEN Return(<<>>)
    ELSE LET one == PrepOneStat(Head(stats), values, weights)
         IN  IF one.err # "" THEN one
             ELSE LET rest == PrepLoop_newestFirst(Tail(stats), values, weights)
                  IN  IF rest.err # "" THEN rest ELSE Return(rest.ops \o one.ops)

\* for stat in stats: ops += ...
RECURSIVE PrepLoop(_, _, _)
PrepLoop(stats, values, weights) ==
    IF stats = <<>> THEN Return(<<>>)
    ELSE LET one == PrepOneStat(Head(stats), values, weights)
         IN  IF one.err # "" THEN one
             ELSE LET rest == PrepLoop(Tail(stats), values, weights)
                  IN  IF rest.err # "" THEN rest ELSE Return(one.ops \o rest.ops)

\* need_unique as an insertion-ordered dict: a sequence of [key, op]
DictKeys(d) == {d[i].key : i \in 1..Len(d)}
DictSet(d, k, v) ==
    IF k \in DictKeys(d)
    THEN [i \in 1..Len(d) |-> IF d[i].key = k THEN [key |-> k, op |-> v] ELSE d[i]]
    ELSE Append(d, [key |-> k, op |-> v])
DictDel(d, k) == SelectSeq(d, LAMBDA e : e.key # k)

RECURSIVE NeedUnique(_, _)
NeedUnique(ops, d) ==
    IF ops = <<>> THEN d
    ELSE NeedUnique(Tail(ops),
                    IF Head(ops).stat \in {"frac", "weighted_frac"}
                    THEN DictSet(d, Key(Head(ops)), Head(ops)) ELSE d)

\* for op in ops: if op.stat == "unique": del need_unique[op.key()]
\* [err, d]: KeyError when the key is not (or no longer) in the dict
RECURSIVE DropRequested_keepAll(_, _)
DropRequested_keepAll(ops, d) ==
    IF ops = <<>> THEN [err |-> "", d |-> d]
    ELSE IF Head(ops).stat = "unique"
         THEN IF Key(Head(ops)) \in DictKeys(d)
              THEN DropRequested_keepAll(Tail(ops), d)
              ELSE [err |-> "KeyError", d |-> d]
         ELSE DropRequested_keepAll(Tail(ops), d)

RECURSIVE DropRequested(_, _)
DropRequested(ops, d) ==
    IF ops = <<>> THEN [err |-> "", d |-> d]
    ELSE IF Head(ops).stat = "unique"
         THEN IF Key(Head(ops)) \in DictKeys(d)
              THEN DropRequested(Tail(ops), DictDel(d, Key(Head(ops))))
              ELSE [err |-> "KeyError", d |-> d]
         ELSE DropRequested(Tail(ops), d)

MarkDelete(op) == [op EXCEPT !.name = <<"@delete@">> \o op.name]

RECURSIVE InjectUnique(_, _, _)
InjectUnique(d, values, weights) ==
    IF d = <<>> THEN Return(<<>>)
    ELSE LET made == PrepareOperations(ChangeStat(Head(d).op, "unique"), values, weights)
         IN  IF made.err # "" THEN made
             ELSE LET rest == InjectUnique(Tail(d), values, weights)
                  IN  IF rest.err # "" THEN rest
                      ELSE Return([i \in 1..Len(made.ops) |-> MarkDelete(made.ops[i])]
                                    \o rest.ops)

\* stats is one request or [kind |-> "list", items]; weights is NoneVal or
\* [kind |-> "list", items], and None becomes []
PrepOps(stats, values, weights_arg, add_unique) ==
    IF stats.kind = "other" THEN Raise("TypeError", <<"object is not iterable">>)
    ELSE
    LET items == IF stats.kind = "list" THEN stats.items ELSE <<stats>>
        weights == IF weights_arg.kind = "none" THEN <<>> ELSE weights_arg.items
        main == PrepLoop(items, values, weights)
    IN  IF main.err # "" \/ ~add_unique THEN main
        ELSE LET dropped == DropRequested(main.ops, NeedUnique(main.ops, <<>>))
             IN  IF dropped.err # "" THEN Raise(dropped.err, <<>>)
                 ELSE LET inj == InjectUnique(dropped.d, values, weights)
                      IN  IF inj.err # "" THEN inj ELSE Return(main.ops \o inj.ops)

(***************************************************************************)
(* Features and values                                                     *)
(*                                                                         *)
(* A value is None (NoneVal), a number, a string, a numpy array, or what the writers *)
(* make of arrays (a list, a set, a dict).  A JSON feature is the dict     *)
(* {"id": ..., "properties": {...}, "geometry": ...}: [id, props, geom],   *)
(* where id is Absent when the dict has no "id", props is an insertion-    *)
(* ordered dict, a sequence of [name, val], and geom is a geometry type or *)
(* "absent".                                                               *)
(***************************************************************************)
Absent == [kind |-> "absent"]
IntVal(i) == [t |-> "int", i |-> i]
FloatVal(i) == [t |-> "float", f |-> i]
StrVal(s) == [t |-> "str", s |-> s]
ArrVal(dtype, a) == [t |-> "ndarray", dtype |-> dtype, a |-> a]
ListVal(a) == [t |-> "list", a |-> a]
SetVal(a) == [t |-> "set", s |-> {a[i] : i \in 1..Len(a)}]
DictVal(m) == [t |-> "dict", m |-> m]

PropNames(props) == {props[i].name : i \in 1..Len(props)}
PropGet(props, name) == (CHOOSE e \in {props[i] : i \in 1..Len(props)} : e.name = name).val
PropSet(props, name, val) ==
    IF name \in PropNames(props)
    THEN [i \in 1..Len(props) |->
            IF props[i].name = name THEN [name |-> name, val |-> val] ELSE props[i]]
    ELSE Append(props, [name |-> name, val |-> val])
PropDel(props, name) == SelectSeq(props, LAMBDA e : e.name # name)
\* dict.update(other)
RECURSIVE PropUpdate(_, _)
PropUpdate(props, other) ==
    IF other = <<>> THEN props
    ELSE PropUpdate(PropSet(props, Head(other).name, Head(other).val), Tail(other))

IdName == Str("id")
EmptyFeature == [id |-> Absent, props |-> <<>>, geom |-> "absent"]

\* JSONFeature.fields(), get() and set()
JsonFields(f) ==
    (IF f.id # Absent THEN <<IdName>> ELSE <<>>) \o [i \in 1..Len(f.props) |-> f.props[i].name]
JsonHas(f, name) == IF name = IdName THEN f.id # Absent ELSE name \in PropNames(f.props)
JsonGet(f, name) == IF name = IdName THEN f.id ELSE PropGet(f.props, name)
JsonSet(f, name, val) ==
    IF name = IdName THEN [f EXCEPT !.id = val]
    ELSE [f EXCEPT !.props = PropSet(f.props, name, val)]

\* Feature.copy_to(dst) for a JSONFeature dst: every field of the source is
\* set on dst, then the geometry
RECURSIVE CopyFields(_, _, _)
CopyFields(names, src, dst) ==
    IF names = <<>> THEN dst
    ELSE CopyFields(Tail(names), src, JsonSet(dst, Head(names), JsonGet(src, Head(names))))

CopyToJson(src, dst) == [CopyFields(JsonFields(src), src, dst) EXCEPT !.geom = src.geom]

(***************************************************************************)
(* Writers                                                                 *)
(*                                                                         *)
(* One record holds the attributes of whichever backend the object is:     *)
(*   JSONWriter   array_type, map_fields, ops, remove, rows (feature_list) *)
(*   PandasWriter cols (self.fields: name -> list)                         *)
(*   QGISWriter   fields (names; QgsFields once typed), layer, rows        *)
(*   GDALWriter   prototype, layer, rows                                   *)
(* map_fields is an ordered dict: a sequence of [field, key_stat,          *)
(* val_stat].  A layer is NoneVal or [fields |-> sequence of [name, type]].*)
(* gdal_exceptions tells whether the OGR bindings raise on an error or     *)
(* only report it.                                                         *)
(***************************************************************************)
NewWriter(kind, array_type, map_fields, gdal_exceptions) ==
    [kind |-> kind, array_type |-> array_type, map_fields |-> map_fields,
     gdal_exceptions |-> gdal_exceptions,
     ops |-> <<>>, remove |-> FALSE, cols |-> <<>>, fields |-> <<>>,
     typed |-> FALSE, prototype |-> <<>>, layer |-> NoneVal, rows |-> <<>>]

DeleteMarker == <<"@delete@">>
StartsWith(str, prefix) == Len(str) >= Len(prefix) /\ SubSeq(str, 1, Len(prefix)) = prefix

\* the outcome of a method: the writer after it and the exception, if any
Done(w) == [w |-> w, err |-> ""]
Thrown(w, err) == [w |-> w, err |-> err]

\* JSONWriter.add_operation
JsonAddOperation(w, op) ==
    [w EXCEPT !.ops = Append(@, [name |-> op.name, stat |-> op.stat]),
              !.remove = @ \/ StartsWith(op.name, DeleteMarker)]

\* for op in self.ops: if op.name not in props: props[op.name] = None
RECURSIVE FillMissing(_, _)
FillMissing(ops, props) ==
    IF ops = <<>> THEN props
    ELSE FillMissing(Tail(ops),
                     IF Head(ops).name \in PropNames(props) THEN props
                     ELSE PropSet(props, Head(ops).name, NoneVal))

\* JSONWriter._fields_for_stat
FieldsForStat(w, stat) ==
    LET sel == SelectSeq(w.ops, LAMBDA o : o.stat = stat)
    IN  [i \in 1..Len(sel) |-> sel[i].name]

\* type(v)
TypeOf(v) == IF v = NoneVal THEN "NoneType" ELSE v.t
\* len(v) and iteration over v for the values that have them
Sized(v) == TypeOf(v) \in {"ndarray", "list", "dict"}
Items(v) == IF v.t = "dict" THEN [i \in 1..Len(v.m) |-> v.m[i].name] ELSE v.a
\* dict(zip(ks, vs)): a later pair with the same key replaces the value
RECURSIVE ZipDict(_, _, _)
ZipDict(ks, vs, acc) ==
    IF ks = <<>> \/ vs = <<>> THEN acc
    ELSE ZipDict(Tail(ks), Tail(vs), PropSet(acc, Head(ks), Head(vs)))

\* the inner loop of _create_map_fields over zip(key_fields, val_fields):
\* [err, new_fields]
RECURSIVE FoldPairs(_, _, _, _, _, _)
FoldPairs(key_fields, val_fields, val_stat, field, props, new_fields) ==
    IF key_fields = <<>> \/ val_fields = <<>> THEN [err |-> "", new_fields |-> new_fields]
    ELSE LET k == PropGet(props, Head(key_fields))
             v == PropGet(props, Head(val_fields))
             new_field == StrReplace(Head(val_fields), StatStr(val_stat), field)
         IN  IF ~Sized(k) \/ ~Sized(v)
             THEN [err |-> "TypeError", new_fields |-> new_fields]
             ELSE IF Len(Items(k)) # Len(Items(v))
             THEN [err |-> "AssertionError", new_fields |-> new_fields]
             ELSE FoldPairs(Tail(key_fields), Tail(val_fields), val_stat, field, props,
                            PropSet(new_fields, new_field,
                                    DictVal(ZipDict(Items(k), Items(v), <<>>))))

\* the outer loop over self.map_fields: [err, new_fields]
RECURSIVE FoldFields(_, _, _, _)
FoldFields(w, map_fields, props, new_fields) ==
    IF map_fields = <<>> THEN [err |-> "", new_fields |-> new_fields]
    ELSE LET mf == Head(map_fields)
             key_fields == FieldsForStat(w, mf.key_stat)
             val_fields == FieldsForStat(w, mf.val_stat)
         IN  IF val_fields = <<>> THEN FoldFields(w, Tail(map_fields), props, new_fields)
             ELSE IF Len(key_fields) # Len(val_fields)
             THEN [err |-> "AssertionError", new_fields |-> new_fields]
             ELSE LET r == FoldPairs(key_fields, val_fields, mf.val_stat, mf.field,
                                     props, new_fields)
                  IN  IF r.err # "" THEN r
                      ELSE FoldFields(w, Tail(map_fields), props, r.new_fields)

\* JSONWriter._create_map_fields: [err, props]
CreateMapFields(w, props) ==
    LET r == FoldFields(w, w.map_fields, props, <<>>)
    IN  IF r.err # "" THEN [err |-> r.err, props |-> props]
        ELSE [err |-> "", props |-> PropUpdate(props, r.new_fields)]

\* a conversion that also turns a mapping into the sequence or set of its keys
ConvertValue_all(array_type, v) ==
    IF TypeOf(v) \in {"ndarray", "dict"}
    THEN IF array_type = "list" THEN ListVal(Items(v))
         ELSE IF array_type = "set" THEN SetVal(Items(v))
         ELSE v
    ELSE v

\* JSONWriter._convert_arrays
ConvertValue(array_type, v) ==
    IF TypeOf(v) = "ndarray"
    THEN IF array_type = "list" THEN ListVal(v.a)
         ELSE IF array_type = "set" THEN SetVal(v.a)
         ELSE v
    ELSE v
ConvertArrays(w, props) ==
    [i \in 1..Len(props) |-> [name |-> props[i].name,
                              val |-> ConvertValue(w.array_type, props[i].val)]]

\* JSONWriter._remove_temporary_fields
RemoveTemporaryFields(w, props) ==
    IF w.remove THEN SelectSeq(props, LAMBDA e : ~StartsWith(e.name, DeleteMarker))
    ELSE props

\* JSONWriter.write
JsonWrite(w, feature) ==
    LET f == CopyToJson(feature, EmptyFeature)
        filled == FillMissing(w.ops, f.props)
        folded == CreateMapFields(w, filled)
    IN  IF folded.err # "" THEN Thrown(w, folded.err)
        ELSE LET props == RemoveTemporaryFields(w, ConvertArrays(w, folded.props))
             IN  Done([w EXCEPT !.rows = Append(@, [f EXCEPT !.props = props])])

\* PandasWriter.add_operation / add_column: self.fields[name] = []
PandasDeclare(w, name) == [w EXCEPT !.cols = PropSet(@, name, <<>>)]

\* PandasWriter.write: one cell is appended to every declared column
GeometryName == Str("geometry")
PandasCell(f, field) ==
    IF field = GeometryName /\ f.geom # "absent" THEN StrVal(f.geom)
    ELSE IF field = IdName /\ f.id # Absent THEN f.id
    ELSE IF field \in PropNames(f.props) THEN PropGet(f.props, field)
    ELSE NoneVal
PandasWrite(w, feature) ==
    LET f == CopyToJson(feature, EmptyFeature)
    IN  Done([w EXCEPT !.cols = [i \in 1..Len(@) |->
                  [name |-> @[i].name, val |-> Append(@[i].val, PandasCell(f, @[i].name))]]])

\* PandasWriter.features(): a frame exists only for columns of one length;
\* [err, columns, nrows]
PandasFeatures(w) ==
    LET lens == {Len(w.cols[i].val) : i \in 1..Len(w.cols)}
    IN  IF Cardinality(lens) > 1
        THEN [err |-> "ValueError", columns |-> <<>>, nrows |-> 0]
        ELSE [err |-> "", columns |-> [i \in 1..Len(w.cols) |-> w.cols[i].name],
              nrows |-> IF lens = {} THEN 0 ELSE CHOOSE n \in lens : TRUE]

\* QGISWriter.add_operation / add_column; once self.fields is a QgsFields
\* object its append rejects a name (TypeError) and nothing is added
QgisDeclare(w, name) == IF w.typed THEN w ELSE [w EXCEPT !.fields = Append(@, name)]

\* QGISWriter._set_fields_types: a field the feature lacks is typed from None
QgisType(v) ==
    CASE TypeOf(v) = "str" -> "String"
      [] TypeOf(v) = "float" -> "Double"
      [] TypeOf(v) = "int" -> "Int"
      [] TypeOf(v) = "ndarray" -> "Array"
      [] OTHER -> "Unknown"
SetFieldsTypes(fields_list, feature) ==
    [i \in 1..Len(fields_list) |->
        [name |-> fields_list[i],
         type |-> QgisType(IF JsonHas(feature, fields_list[i])
                           THEN JsonGet(feature, fields_list[i]) ELSE NoneVal)]]

\* QGISWriter._get_geometry_type: None when the feature has no geometry
GetGeometryType(feature) ==
    IF feature.geom = "absent" THEN "None"
    ELSE IF feature.geom \in {"Point", "LineString", "Polygon"} THEN feature.geom
    ELSE "unknown"

\* feature.copy_to(QGISFeature(fields=...)): setAttribute raises KeyError
\* for a name that is not a field; [err, attrs]
RECURSIVE QgisCopy(_, _, _, _)
QgisCopy(names, src, field_names, attrs) ==
    IF names = <<>> THEN [err |-> "", attrs |-> attrs]
    ELSE IF Head(names) \notin field_names THEN [err |-> "KeyError", attrs |-> attrs]
    ELSE QgisCopy(Tail(names), src, field_names,
                  PropSet(attrs, Head(names), JsonGet(src, Head(names))))

\* QGISWriter.write; a writer whose first attempt failed after self.fields
\* became QgsFields has no names left to build QgsField objects from
QgisWrite(w, feature) ==
    LET tmp == CopyToJson(feature, EmptyFeature)
        created == w.layer = NoneVal
        typed == IF created /\ ~w.typed THEN SetFieldsTypes(w.fields, tmp) ELSE w.fields
        w1 == IF created THEN [w EXCEPT !.fields = typed, !.typed = TRUE] ELSE w
    IN  IF created /\ (w.typed \/ GetGeometryType(tmp) \in {"None", "unknown"})
        THEN Thrown(w1, "TypeError")
        ELSE LET w2 == IF created THEN [w1 EXCEPT !.layer = [fields |-> typed]] ELSE w1
                 names == {w2.layer.fields[i].name : i \in 1..Len(w2.layer.fields)}
                 copied == QgisCopy(JsonFields(feature), feature, names, <<>>)
             IN  IF copied.err # "" THEN Thrown(w2, copied.err)
                 ELSE Done([w2 EXCEPT !.rows = Append(@, [feature EXCEPT !.id = Absent,
                                                           !.props = copied.attrs])])

\* GDALWriter.add_operation / add_column: self.prototype["properties"][name] = None
GdalDeclare(w, name) == [w EXCEPT !.prototype = PropSet(@, name, NoneVal)]

\* GDALWriter._collect_fields: one field per field of the feature, typed
\* by the value it holds
OgrType(v) ==
    CASE TypeOf(v) = "float" -> "OFTReal"
      [] TypeOf(v) = "int" -> "OFTInteger"
      [] TypeOf(v) = "ndarray" ->
            (CASE v.dtype = "int64" -> "OFTInteger64List"
               [] v.dtype = "int32" -> "OFTIntegerList"
               [] v.dtype = "float64" -> "OFTRealList"
               [] OTHER -> "None")
      [] OTHER -> "OFTString"
RECURSIVE Dedup(_, _)
Dedup(names, seen) ==
    IF names = <<>> THEN <<>>
    ELSE IF Head(names) \in seen THEN Dedup(Tail(names), seen)
    ELSE <<Head(names)>> \o Dedup(Tail(names), seen \cup {Head(names)})
\* [err, fields]: feature.get("id") reads the feature's own "id", which a
\* property named "id" does not provide
CollectFields(feature) ==
    LET names == Dedup(JsonFields(feature), {})
    IN  IF \E i \in 1..Len(names) : names[i] = IdName /\ feature.id = Absent
        THEN [err |-> "KeyError", fields |-> <<>>]
        ELSE [err |-> "",
              fields |-> [i \in 1..Len(names) |->
                            [name |-> names[i], type |-> OgrType(JsonGet(feature, names[i]))]]]

\* feature.copy_to(GDALFeature(ogr_feature)): GDALFeature.set for every
\* field of the source; [err, attrs]
RECURSIVE GdalCopy(_, _, _, _, _)
GdalCopy(names, src, field_names, gdal_exceptions, attrs) ==
    IF names = <<>> THEN [err |-> "", attrs |-> attrs]
    ELSE LET v == JsonGet(src, Head(names))
         IN  IF TypeOf(v) \in {"int", "float", "str"}
             THEN IF Head(names) \in field_names
                  THEN GdalCopy(Tail(names), src, field_names, gdal_exceptions,
                                PropSet(attrs, Head(names), v))
                  ELSE IF gdal_exceptions THEN [err |-> "RuntimeError", attrs |-> attrs]
                  ELSE GdalCopy(Tail(names), src, field_names, gdal_exceptions, attrs)
             ELSE IF TypeOf(v) # "ndarray" THEN [err |-> "AttributeError", attrs |-> attrs]
             ELSE IF v.dtype \notin {"int64", "int32", "float64"}
             THEN [err |-> "Exception", attrs |-> attrs]
             ELSE IF Head(names) \in field_names
                  THEN GdalCopy(Tail(names), src, field_names, gdal_exceptions,
                                PropSet(attrs, Head(names), v))
                  ELSE IF gdal_exceptions THEN [err |-> "RuntimeError", attrs |-> attrs]
                  ELSE GdalCopy(Tail(names), src, field_names, gdal_exceptions, attrs)

\* GDALWriter.write
GdalWrite(w, feature) ==
    LET f == CopyToJson(feature, [EmptyFeature EXCEPT !.props = w.prototype])
        collected == CollectFields(f)
    IN  IF w.layer = NoneVal /\ collected.err # "" THEN Thrown(w, collected.err)
        ELSE
        LET w1 == IF w.layer = NoneVal THEN [w EXCEPT !.layer = [fields |-> collected.fields]]
                  ELSE w
            names == {w1.layer.fields[i].name : i \in 1..Len(w1.layer.fields)}
            copied == GdalCopy(JsonFields(feature), feature, names, w.gdal_exceptions, <<>>)
        IN  IF copied.err # "" THEN Thrown(w1, copied.err)
            ELSE Done([w1 EXCEPT !.rows = Append(@, [feature EXCEPT !.id = Absent,
                                                      !.props = copied.attrs])])

\* the declarations and the write of whichever backend w is
Declared(w) ==
    CASE w.kind = "json" -> [i \in 1..Len(w.ops) |-> w.ops[i].name]
      [] w.kind = "pandas" -> [i \in 1..Len(w.cols) |-> w.cols[i].name]
      [] w.kind = "qgis" -> [i \in 1..Len(w.fields) |-> IF w.typed THEN w.fields[i].name
                                                         ELSE w.fields[i]]
      [] w.kind = "gdal" -> [i \in 1..Len(w.prototype) |-> w.prototype[i].name]
      [] OTHER -> <<>>

AddOperation(w, op) ==
    CASE w.kind = "json" -> JsonAddOperation(w, op)
      [] w.kind = "pandas" -> PandasDeclare(w, op.name)
      [] w.kind = "qgis" -> QgisDeclare(w, op.name)
      [] w.kind = "gdal" -> GdalDeclare(w, op.name)

\* JSONWriter inherits the add_column of the base class, which keeps nothing
AddColumn(w, name) ==
    CASE w.kind = "json" -> w
      [] w.kind = "pandas" -> PandasDeclare(w, name)
      [] w.kind = "qgis" -> QgisDeclare(w, name)
      [] w.kind = "gdal" -> GdalDeclare(w, name)

Write(w, feature) ==
    CASE w.kind = "json" -> JsonWrite(w, feature)
      [] w.kind = "pandas" -> PandasWrite(w, feature)
      [] w.kind = "qgis" -> QgisWrite(w, feature)
      [] w.kind = "gdal" -> GdalWrite(w, feature)

(***************************************************************************)
(* Inputs of the naming specification                                      *)
(***************************************************************************)
Roots == {Empty, Str("r"), Str("weight")}

Paths == { <<"r1", ".", "tif">>, <<"d", "/", "r2", ".", "tif">>, <<"d", "/", "r1">>,
           <<"d", ".", "x", "/", ".", "nc">> }

FileInputs == {[kind |-> "path", path |-> p, nbands |-> n, subs |-> <<>>, srs |-> "None"] :
                  p \in Paths, n \in 0..MaxBands}

DatasetInputs ==
    {[kind |-> "dataset", lib |-> l, nbands |-> n, subs |-> <<>>, srs |-> "None"] :
        l \in {"gdal", "rasterio", "xarray"}, n \in 1..MaxBands}
    \cup
    {[kind |-> "dataset", lib |-> l, nbands |-> 0,
      subs |-> <<[var |-> Str("t"), nbands |-> 1], [var |-> Str("p"), nbands |-> n]>>,
      srs |-> "None"] : l \in {"gdal", "xarray"}, n \in 1..MaxBands}

SourceInputs == {Source(nm, "None") : nm \in {Empty, Str("a")}}

ScalarInputs == FileInputs \cup DatasetInputs \cup SourceInputs
                  \cup {NoneVal, [kind |-> "other"]}

\* the items offered inside a list input
ListItems == {r \in FileInputs : r.nbands \in {1, MaxBands}}
               \cup {Source(Str("a"), "None"), [kind |-> "other"]}

SeqsUpTo(S, n) == UNION {[1..k -> S] : k \in 0..n}

ListInputs == {[kind |-> "list", items |-> it] : it \in SeqsUpTo(ListItems, MaxList)}

RasterInputs == ScalarInputs \cup ListInputs

LibSets == {{"gdal", "rasterio", "xarray"}, {"rasterio", "xarray"}, {"xarray"}, {}}

\* a dataset object of a library exists only where that library is installed
Possible(rast, libs) ==
    /\ rast.kind = "dataset" => rast.lib \in libs
    /\ rast.kind = "list" =>
          \A i \in 1..Len(rast.items) :
              rast.items[i].kind = "dataset" => rast.items[i].lib \in libs

NoErr == [err |-> "", msg |-> <<>>]
NoOut == [writer |-> FALSE, processor |-> FALSE, show |-> FALSE, fn |-> "none",
          chunks |-> 0, order |-> <<>>, fracs |-> <<>>, log |-> <<>>,
          jw |-> NewWriter("none", "numpy", <<>>, TRUE),
          written |-> 0, finished |-> FALSE, returned |-> FALSE]
NoFails == [stat |-> 0, callback |-> 0]
\* the threads of the process that run extraction calls at the same time
Threads == {"t1", "t2"}

\* nothing has been called
Init ==
    /\ names_call = [root |-> Empty, nbands |-> 0]
    /\ names_ret = <<>>
    /\ praster_call = [rast |-> NoneVal, role |-> "values", libs |-> {}]
    /\ praster_ret = Fail("idle")
    /\ ops_call = [stats |-> OtherReq, values |-> <<>>, weights |-> NoneVal,
                   add_unique |-> FALSE]
    /\ ops_ret = Raise("idle", <<>>)
    /\ pyop_call = [fn |-> FnReq(Empty, 0), raster |-> NoneVal, weights |-> NoneVal]
    /\ pyop_ret = Raise("idle", <<>>)
    /\ x_in = [rast |-> NoneVal, weights |-> NoneVal,
               vec |-> [kind |-> "json", srs |-> "None", n |-> 0], stats |-> OtherReq,
               strategy |-> "feature-sequential", frac_as_map |-> "absent",
               env |-> [lib |-> "none", exceptions |-> TRUE],
               progress |-> "none", tqdm |-> FALSE, chunks |-> 1, fails |-> NoFails]
    /\ x_pc = "idle"
    /\ x_ops = <<>>
    /\ x_err = NoErr
    /\ x_i = 1
    /\ x_check = [vec |-> TRUE, weights |-> TRUE]
    /\ x_warnings = <<>>
    /\ x_parsed = {}
    /\ x_out = NoOut
    /\ memo = {}
    /\ wr = NewWriter("none", "numpy", <<>>, TRUE)
    /\ wr_calls = <<>>
    /\ cm_env = [on |-> FALSE, lib |-> "none", exceptions |-> TRUE]
    /\ cm_pc = [t \in Threads |-> "idle"]
    /\ cm_arg = [t \in Threads |-> <<"None", "None">>]
    /\ cm_res = [t \in Threads |-> FALSE]
    /\ cm_seen = {}
    /\ cm_n = 0
    /\ rd_src = [kind |-> "none"]
    /\ rd_out = [win |-> <<0, 0, 0, 0>>, res |-> [kind |-> "none"]]
    /\ pv_in = [vec |-> [kind |-> "other"], libs |-> {}, exceptions |-> FALSE]
    /\ pv_pc = "idle"
    /\ pv_vec = [kind |-> "other"]
    /\ pv_seen = <<>>
    /\ pv_ret = [err |-> "idle", msg |-> "", source |-> "None"]

\* one call per behaviour: nothing has been called yet
NamesIdle == names_ret = <<>> /\ praster_ret.err = "idle"
OpsIdle == ops_ret.err = "idle" /\ pyop_ret.err = "idle"
AllIdle == /\ NamesIdle /\ OpsIdle /\ x_pc = "idle" /\ wr.kind = "none" /\ ~cm_env.on
           /\ rd_src.kind = "none" /\ pv_pc = "idle"

CallMakeRasterNames ==
    /\ AllIdle
    /\ \E root \in Roots, n \in 0..MaxBands :
        /\ names_call' = [root |-> root, nbands |-> n]
        /\ names_ret' = MakeRasterNames(root, n)
        /\ UNCHANGED <<praster_call, praster_ret, varsOps, varsEx, varsWr, varsCm, varsRd, varsPv>>

CallPrepRaster ==
    /\ AllIdle
    /\ \E rast \in RasterInputs, role \in {"values", "weights"}, libs \in LibSets :
        /\ Possible(rast, libs)
        /\ praster_call' = [rast |-> rast, role |-> role, libs |-> libs]
        /\ praster_ret' = PrepRaster(rast, RoleRoot(role), libs)
        /\ UNCHANGED <<names_call, names_ret, varsOps, varsEx, varsWr, varsCm, varsRd, varsPv>>

NextNames == CallMakeRasterNames \/ CallPrepRaster

SpecNames == Init /\ [][NextNames]_vars

(***************************************************************************)
(* Inputs of the operation builder specification                           *)
(***************************************************************************)
ValueNames == {Str("a"), Str("b"), Str("count")}
WeightNames == {Str("w"), Str("v")}

NonEmptySeqsUpTo(S, n) == UNION {[1..k -> S] : k \in 1..n}

ValueLists == NonEmptySeqsUpTo({Source(nm, "None") : nm \in ValueNames}, MaxValues)
WeightArgs == {NoneVal} \cup
              {[kind |-> "list", items |-> it] :
                  it \in SeqsUpTo({Source(nm, "None") : nm \in WeightNames}, MaxWeights)}

Functions == {FnReq(Str("f"), n) : n \in 0..MaxArgs}

ExplicitOps == {BuiltinOp("mean", Str("my_op"), Source(Str("a"), "None"), NoneVal),
                BuiltinOp("sum", Str("mean"), Source(Str("a"), "None"), NoneVal)}

Requests == {StrReq(st, Empty) :
                st \in {"count", "mean", "weighted_mean", "variance", "frac", "unique"}}
              \cup {StrReq("mean", Str("s"))}
              \cup Functions
              \cup {OpReq(op) : op \in ExplicitOps}
              \cup {OtherReq}

\* a unique operation the caller builds for one source
UniqueOp == BuiltinOp("unique", Str("u"), Source(Str("a"), "None"), NoneVal)

SecondRequests == {StrReq("mean", Empty), StrReq("weighted_frac", Empty),
                   StrReq("unique", Empty), FnReq(Str("f"), 2), OpReq(UniqueOp)}

StatArgs == Requests
              \cup {[kind |-> "list", items |-> <<r>>] : r \in Requests}
              \cup {[kind |-> "list", items |-> <<r1, r2>>] :
                        r1 \in Requests, r2 \in SecondRequests}

CallPrepOps ==
    /\ AllIdle
    /\ \E stats \in StatArgs, values \in ValueLists, weights \in WeightArgs,
          add_unique \in BOOLEAN :
        /\ ops_call' = [stats |-> stats, values |-> values, weights |-> weights,
                        add_unique |-> add_unique]
        /\ ops_ret' = PrepOps(stats, values, weights, add_unique)
        /\ UNCHANGED <<varsNames, pyop_call, pyop_ret, varsEx, varsWr, varsCm, varsRd, varsPv>>

\* a caller constructs PythonOperation(function, field_name, raster, weights) directly
CallPythonOperation ==
    /\ AllIdle
    /\ \E fn \in Functions, raster \in {NoneVal, Source(Str("a"), "None")},
          weights \in {NoneVal, Source(Str("w"), "None")} :
        /\ pyop_call' = [fn |-> fn, raster |-> raster, weights |-> weights]
        /\ pyop_ret' = PythonOperation(fn, fn.fname, raster, weights)
        /\ UNCHANGED <<varsNames, ops_call, ops_ret, varsEx, varsWr, varsCm, varsRd, varsPv>>

NextOps == CallPrepOps \/ CallPythonOperation

SpecOps == Init /\ [][NextOps]_vars

(***************************************************************************)
(* Spatial references and crs_matches                                      *)
(*                                                                         *)
(* A reference is "None" (Python's None) or a WKT text.  "A" and "A2" are  *)
(* two serialisations of one CRS, "B" is another CRS, "bad" cannot be      *)
(* parsed.  The environment says which parsing library can be imported     *)
(* (osr is tried first, then pyproj) and whether osr raises on errors.     *)
(***************************************************************************)
Parsable(wkt) == wkt \in {"A", "A2", "B"}
Crs(wkt) == IF wkt \in {"A", "A2"} THEN "crs_a" ELSE "crs_b"

Envs == {[lib |-> "osr", exceptions |-> TRUE], [lib |-> "osr", exceptions |-> FALSE],
         [lib |-> "pyproj", exceptions |-> TRUE], [lib |-> "none", exceptions |-> TRUE]}

\* the body of crs_matches: [val, raised, parsed]; raised is "" when it
\* returns, parsed tells whether a reference was handed to a parsing library
CrsBody_noNoneCheck(wkt_a, wkt_b, env) ==
    IF wkt_a = wkt_b
    THEN [val |-> TRUE, raised |-> "", parsed |-> FALSE]
    ELSE IF env.lib = "osr"
    THEN IF ~Parsable(wkt_a) \/ ~Parsable(wkt_b)
         THEN IF env.exceptions
              THEN [val |-> FALSE, raised |-> "RuntimeError", parsed |-> TRUE]
              ELSE [val |-> FALSE, raised |-> "", parsed |-> TRUE]
         ELSE [val |-> Crs(wkt_a) = Crs(wkt_b), raised |-> "", parsed |-> TRUE]
    ELSE IF env.lib = "pyproj"
    THEN IF ~Parsable(wkt_a) \/ ~Parsable(wkt_b)
         THEN [val |-> FALSE, raised |-> "CRSError", parsed |-> TRUE]
         ELSE [val |-> Crs(wkt_a) = Crs(wkt_b), raised |-> "", parsed |-> TRUE]
    ELSE [val |-> FALSE, raised |-> "", parsed |-> FALSE]

CrsBody(wkt_a, wkt_b, env) ==
    IF wkt_a = "None" \/ wkt_b = "None"
    THEN [val |-> TRUE, raised |-> "", parsed |-> FALSE]
    ELSE CrsBody_noNoneCheck(wkt_a, wkt_b, env)

\* @functools.cache around the body: a stored value is returned without
\* running the body; a value is stored only when the body returns
MemoHas(m, a, b) == \E e \in m : e.a = a /\ e.b = b
MemoGet(m, a, b) == (CHOOSE e \in m : e.a = a /\ e.b = b).val

CrsMatches(wkt_a, wkt_b, env, m) ==
    IF MemoHas(m, wkt_a, wkt_b)
    THEN [val |-> MemoGet(m, wkt_a, wkt_b), raised |-> "", parsed |-> FALSE, memo |-> m]
    ELSE LET r == CrsBody(wkt_a, wkt_b, env)
         IN  [val |-> r.val, raised |-> r.raised, parsed |-> r.parsed,
              memo |-> IF r.raised = "" THEN m \cup {[a |-> wkt_a, b |-> wkt_b, val |-> r.val]}
                       ELSE m]

\* FeatureSource.srs_wkt(): [wkt, raised]; GeoPandasFeatureSource calls
\* self.src.crs.to_wkt() also when the frame has no crs
VecSrsWkt(vec) ==
    IF vec.kind = "geopandas" /\ vec.srs = "None"
    THEN [wkt |-> "None", raised |-> "AttributeError"]
    ELSE [wkt |-> vec.srs, raised |-> ""]

RasterSrsWkt(src) == src.srs

(***************************************************************************)
(* warn_on_crs_mismatch: one iteration of its loop, for operation op.      *)
(* The result is [raised, check, warnings, parsed, memo].                  *)
(***************************************************************************)
WarnValues == "features vs. value raster"
WarnWeights == "features vs. weight raster"

\* the first "if" of the loop body
WarnVecPart(vec, op, env, st) ==
    IF ~st.check.vec THEN st
    ELSE LET v == VecSrsWkt(vec) IN
         IF v.raised # "" THEN [st EXCEPT !.raised = v.raised]
         ELSE LET r == CrsMatches(v.wkt, RasterSrsWkt(op.values), env, st.memo)
                  st1 == [st EXCEPT !.memo = r.memo,
                                    !.parsed = IF r.parsed
                                               THEN st.parsed \cup {<<v.wkt, RasterSrsWkt(op.values)>>}
                                               ELSE st.parsed]
              IN  IF r.raised # "" THEN [st1 EXCEPT !.raised = r.raised]
                  ELSE IF ~r.val
                       THEN [st1 EXCEPT !.check.vec = FALSE,
                                        !.warnings = Append(st.warnings, WarnValues)]
                       ELSE st1

\* the second "if" of the loop body
WarnWeightsPart_noFlag(vec, op, env, st) ==
    IF op.weights = NoneVal THEN st
    ELSE LET v == VecSrsWkt(vec) IN
         IF v.raised # "" THEN [st EXCEPT !.raised = v.raised]
         ELSE LET r == CrsMatches(v.wkt, RasterSrsWkt(op.weights), env, st.memo)
                  st1 == [st EXCEPT !.memo = r.memo,
                                    !.parsed = IF r.parsed
                                               THEN st.parsed \cup {<<v.wkt, RasterSrsWkt(op.weights)>>}
                                               ELSE st.parsed]
              IN  IF r.raised # "" THEN [st1 EXCEPT !.raised = r.raised]
                  ELSE IF ~r.val
                       THEN [st1 EXCEPT !.check.weights = FALSE,
                                        !.warnings = Append(st.warnings, WarnWeights)]
                       ELSE st1

WarnWeightsPart(vec, op, env, st) ==
    IF ~st.check.weights THEN st ELSE WarnWeightsPart_noFlag(vec, op, env, st)

WarnBody(vec, op, env, st) ==
    LET st1 == WarnVecPart(vec, op, env, st)
    IN  IF st1.raised # "" THEN st1 ELSE WarnWeightsPart(vec, op, env, st1)

(***************************************************************************)
(* exact_extract                                                           *)
(***************************************************************************)
UseSequential == ". Use strategy='feature-sequential' or strategy='raster-sequential' instead."
WeightedMsg == <<"Weighted operations are not supported with strategy='raster-parallel'",
                 UseSequential>>
VarianceMsg == <<"Variance operations are not supported with strategy='raster-parallel'",
                 UseSequential>>

\* the loop "for op in ops" under strategy == "raster-parallel"
ParallelCheck_firstOnly(ops) ==
    IF ops = <<>> THEN NoErr
    ELSE IF OpWeighted(Head(ops)) THEN [err |-> "ValueError", msg |-> WeightedMsg]
    ELSE IF OpRequiresVariance(Head(ops)) THEN [err |-> "ValueError", msg |-> VarianceMsg]
    ELSE NoErr

RECURSIVE ParallelCheck(_)
ParallelCheck(ops) ==
    IF ops = <<>> THEN NoErr
    ELSE IF OpWeighted(Head(ops)) THEN [err |-> "ValueError", msg |-> WeightedMsg]
    ELSE IF OpRequiresVariance(Head(ops)) THEN [err |-> "ValueError", msg |-> VarianceMsg]
    ELSE ParallelCheck(Tail(ops))

StrategyCheck(strategy, ops) ==
    IF strategy = "raster-parallel" THEN ParallelCheck(ops) ELSE NoErr

\* add_unique = output_options.get("frac_as_map", False)
AddUnique(frac_as_map) == frac_as_map = "true"

\* the features the engine is still to write
Remaining == x_in.vec.n - x_out.written

\* rast = prep_raster(rast); weights = prep_raster(weights, name_root="weight");
\* vec = prep_vec(vec) (a FeatureSource passes through); ops = prep_ops(...)
ExPrepare(args) ==
    LET rast == PrepRaster(args.rast, Empty, {})
        weights == PrepRaster(args.weights, Str("weight"), {})
    IN  IF rast.err # "" THEN Raise("Exception", <<rast.err>>)
        ELSE IF weights.err # "" THEN Raise("Exception", <<weights.err>>)
        ELSE PrepOps(args.stats, rast.sources,
                     [kind |-> "list", items |-> weights.sources],
                     AddUnique(args.frac_as_map))

\* (1) the call starts: inputs are normalised and the operations are built
ExStart(args) ==
    /\ x_in' = args
    /\ LET made == ExPrepare(args)
       IN  IF made.err # ""
           THEN /\ x_pc' = "raised"
                /\ x_err' = [err |-> made.err, msg |-> made.msg]
                /\ x_ops' = <<>>
           ELSE /\ x_pc' = "crs"
                /\ x_err' = NoErr
                /\ x_ops' = made.ops
    /\ UNCHANGED <<x_i, x_check, x_warnings, x_parsed, x_out, memo, varsNames, varsOps, varsWr, varsCm, varsRd, varsPv>>

\* (2) one iteration of the loop of warn_on_crs_mismatch
ExWarnStep ==
    /\ x_pc = "crs"
    /\ x_i <= Len(x_ops)
    /\ LET st == WarnBody(x_in.vec, x_ops[x_i], x_in.env,
                          [raised |-> "", check |-> x_check, warnings |-> x_warnings,
                           parsed |-> x_parsed, memo |-> memo])
       IN  /\ x_check' = st.check
           /\ x_warnings' = st.warnings
           /\ x_parsed' = st.parsed
           /\ memo' = st.memo
           /\ IF st.raised # ""
              THEN /\ x_pc' = "raised"
                   /\ x_err' = [err |-> st.raised, msg |-> <<>>]
                   /\ x_i' = x_i
              ELSE /\ x_i' = x_i + 1
                   /\ UNCHANGED <<x_pc, x_err>>
    /\ UNCHANGED <<x_in, x_ops, x_out, varsNames, varsOps, varsWr, varsCm, varsRd, varsPv>>

\* (3) the loop is over: the strategy's restrictions are checked
ExValidate ==
    /\ x_pc = "crs"
    /\ x_i > Len(x_ops)
    /\ LET bad == StrategyCheck(x_in.strategy, x_ops)
       IN  IF bad.err # ""
           THEN x_pc' = "raised" /\ x_err' = bad
           ELSE x_pc' = "validated" /\ UNCHANGED x_err
    /\ UNCHANGED <<x_in, x_ops, x_i, x_check, x_warnings, x_parsed, x_out, memo, varsNames, varsOps, varsWr, varsCm, varsRd, varsPv>>

\* the map fields of frac_as_map: {"frac": ("unique", "frac"),
\* "weighted_frac": ("unique", "weighted_frac")}
FracAsMap == <<[field |-> Str("frac"), key_stat |-> "unique", val_stat |-> "frac"],
               [field |-> <<"weighted", "_", "frac">>, key_stat |-> "unique",
                val_stat |-> "weighted_frac"]>>

\* output_options as exact_extract hands them to prep_writer: the key
\* frac_as_map is replaced by the two map fields whenever it is present

MapFieldsOption(frac_as_map) == IF frac_as_map # "absent" THEN FracAsMap ELSE <<>>

\* prep_writer(output, vec.srs_wkt(), output_options) for the default
\* output "geojson": JSONWriter(**options)
PrepWriter(frac_as_map) == NewWriter("json", "numpy", MapFieldsOption(frac_as_map), TRUE)

\* the processor registers its operations with the writer, in order
RECURSIVE RegisterOps(_, _)
RegisterOps(w, ops) ==
    IF ops = <<>> THEN w ELSE RegisterOps(JsonAddOperation(w, Head(ops)), Tail(ops))

\* (4) writer = prep_writer(output, vec.srs_wkt(), output_options); the
\* processor is constructed on it
ExCreate ==
    /\ x_pc = "validated"
    /\ IF VecSrsWkt(x_in.vec).raised # ""
       THEN /\ x_pc' = "raised"
            /\ x_err' = [err |-> VecSrsWkt(x_in.vec).raised, msg |-> <<>>]
            /\ UNCHANGED x_out
       ELSE /\ x_pc' = "created"
            /\ x_out' = [x_out EXCEPT !.writer = TRUE, !.processor = TRUE,
                                      !.jw = RegisterOps(PrepWriter(x_in.frac_as_map), x_ops)]
            /\ UNCHANGED x_err
    /\ UNCHANGED <<x_in, x_ops, x_i, x_check, x_warnings, x_parsed, memo, varsNames, varsOps, varsWr, varsCm, varsRd, varsPv>>

\* if progress: processor.show_progress(True), then the callback: the
\* caller's function, or for True a tqdm bar (a print when tqdm is missing);
\* [err, show, fn]
ProgressMsg == <<"progress should be True or a function">>
InstallProgress_hidden(progress, tqdm) ==
    CASE progress = "none" -> [err |-> NoErr, show |-> FALSE, fn |-> "none"]
      [] progress = "fn" -> [err |-> NoErr, show |-> FALSE, fn |-> "user"]
      [] progress = "true" ->
            [err |-> NoErr, show |-> FALSE, fn |-> IF tqdm THEN "bar" ELSE "print"]
      [] OTHER -> [err |-> [err |-> "ValueError", msg |-> ProgressMsg],
                   show |-> TRUE, fn |-> "none"]

InstallProgress(progress, tqdm) ==
    CASE progress = "none" -> [err |-> NoErr, show |-> FALSE, fn |-> "none"]
      [] progress = "fn" -> [err |-> NoErr, show |-> TRUE, fn |-> "user"]
      [] progress = "true" ->
            [err |-> NoErr, show |-> TRUE, fn |-> IF tqdm THEN "bar" ELSE "print"]
      [] OTHER -> [err |-> [err |-> "ValueError", msg |-> ProgressMsg],
                   show |-> TRUE, fn |-> "none"]

\* an exception leaves exact_extract: nothing after the raising statement
\* runs and the exception is the caller's; [pc, err, out]
Abort_finally(out, e) ==
    [pc |-> "raised", err |-> e,
     out |-> [out EXCEPT !.log = Append(@, "finish"), !.finished = TRUE]]

Abort(out, e) == [pc |-> "raised", err |-> e, out |-> out]

\* (5) the progress callback is installed and processor.process() is entered
ExProgress ==
    /\ x_pc = "created"
    /\ LET inst == InstallProgress(x_in.progress, x_in.tqdm)
           out == [x_out EXCEPT !.show = inst.show, !.fn = inst.fn]
       IN  IF inst.err # NoErr
           THEN LET a == Abort(out, inst.err)
                IN  x_pc' = a.pc /\ x_err' = a.err /\ x_out' = a.out
           ELSE /\ x_pc' = "processing"
                /\ x_out' = [out EXCEPT !.log = Append(@, "process")]
                /\ UNCHANGED x_err
    /\ UNCHANGED <<x_in, x_ops, x_i, x_check, x_warnings, x_parsed, memo, varsNames, varsOps, varsWr, varsCm, varsRd, varsPv>>

(***************************************************************************)
(* Processor.process belongs to the compiled engine; it is modelled from   *)
(* the design text (sections 4.4 and 5): the feature-sequential strategy   *)
(* completes one feature after the other, the raster strategies read the   *)
(* raster chunk by chunk and deliver the features once every chunk is in;  *)
(* progress is reported after each completed feature or chunk.             *)
(***************************************************************************)
\* a fraction k/n
Fraction(k, n) == [num |-> k, den |-> n]
FracLeq(a, b) == a.num * b.den <= b.num * a.den
FracIsOne(a) == a.num = a.den

StatError == [err |-> "RuntimeError", msg |-> <<"errors are propagated">>]
CallbackError == [err |-> "RuntimeError", msg |-> <<"raised by the callback">>]

TotalChunks(args) ==
    IF args.strategy = "feature-sequential" \/ args.vec.n = 0 THEN 0 ELSE args.chunks

\* the progress callback is invoked with frac; [out, raised]
Report(out, frac, fails) ==
    IF ~out.show \/ out.fn = "none" THEN [out |-> out, raised |-> NoErr]
    ELSE [out |-> [out EXCEPT !.fracs = Append(@, frac)],
          raised |-> IF out.fn = "user" /\ fails.callback = Len(out.fracs) + 1
                     THEN CallbackError ELSE NoErr]

\* the features whose record may be delivered next
Deliverable_anyOrder(strategy, order, chunks, total, n) ==
    {k \in 1..n : \A i \in 1..Len(order) : order[i].f # k}

Deliverable(strategy, order, chunks, total, n) ==
    LET left == {k \in 1..n : \A i \in 1..Len(order) : order[i].f # k}
    IN  IF chunks < total THEN {}
        ELSE IF strategy = "raster-parallel" THEN left
        ELSE {k \in left : \A j \in left : k <= j}

\* the custom statistic is called for feature k and raises
StatRaises(ops, fails, k) == fails.stat = k /\ \E i \in 1..Len(ops) : ops[i].py

\* the value the engine computes for one operation: the coverage fractions
\* and the distinct values are arrays over the same index, the other
\* statistics are numbers
EngineValue(op) ==
    IF ~op.py /\ op.stat \in {"frac", "weighted_frac"} THEN ArrVal("float64", <<5, 6>>)
    ELSE IF ~op.py /\ op.stat = "unique" THEN ArrVal("int64", <<1, 2>>)
    ELSE IntVal(9)
\* the record of feature k: one property per operation
EngineRecord(ops, k) ==
    [id |-> IntVal(k), geom |-> "Point",
     props |-> [i \in 1..Len(ops) |-> [name |-> ops[i].name, val |-> EngineValue(ops[i])]]]

\* the record of feature k is written; an exception of the writer leaves
\* process() as it is; [out, raised]
WriteRecord(out, k, wrote) ==
    IF wrote.err # ""
    THEN [out |-> out, raised |-> [err |-> wrote.err, msg |-> <<>>]]
    ELSE [out |-> [out EXCEPT !.order = Append(@, [f |-> k, chunks |-> out.chunks]),
                              !.written = @ + 1, !.jw = wrote.w],
          raised |-> NoErr]
Deliver(out, ops, fails, k) ==
    IF StatRaises(ops, fails, k) THEN [out |-> out, raised |-> StatError]
    ELSE WriteRecord(out, k, JsonWrite(out.jw, EngineRecord(ops, k)))

\* (6) processor.process(), raster strategies: one more chunk of the raster
\* has been read
ExChunk ==
    /\ x_pc = "processing"
    /\ x_out.chunks < TotalChunks(x_in)
    /\ LET out == [x_out EXCEPT !.chunks = @ + 1]
           told == Report(out, Fraction(out.chunks, TotalChunks(x_in)), x_in.fails)
       IN  IF told.raised # NoErr
           THEN LET a == Abort(told.out, told.raised)
                IN  x_pc' = a.pc /\ x_err' = a.err /\ x_out' = a.out
           ELSE x_out' = told.out /\ UNCHANGED <<x_pc, x_err>>
    /\ UNCHANGED <<x_in, x_ops, x_i, x_check, x_warnings, x_parsed, memo, varsNames, varsOps, varsWr, varsCm, varsRd, varsPv>>

\* (7) processor.process(): the engine hands the writer the record of one
\* feature; the feature-sequential strategy then reports its progress
ExWrite ==
    /\ x_pc = "processing"
    /\ \E k \in Deliverable(x_in.strategy, x_out.order, x_out.chunks,
                            TotalChunks(x_in), x_in.vec.n) :
          \E done \in {Deliver(x_out, x_ops, x_in.fails, k)} :
          \E told \in {IF done.raised # NoErr \/ x_in.strategy # "feature-sequential"
                       THEN done
                       ELSE Report(done.out, Fraction(done.out.written, x_in.vec.n),
                                   x_in.fails)} :
              IF told.raised # NoErr
              THEN LET a == Abort(told.out, told.raised)
                   IN  x_pc' = a.pc /\ x_err' = a.err /\ x_out' = a.out
              ELSE x_out' = told.out /\ UNCHANGED <<x_pc, x_err>>
    /\ UNCHANGED <<x_in, x_ops, x_i, x_check, x_warnings, x_parsed, memo, varsNames, varsOps, varsWr, varsCm, varsRd, varsPv>>

\* (8) process() has returned: writer.finish(); return writer.features()
ExFinish ==
    /\ x_pc = "processing"
    /\ Remaining = 0
    /\ x_out.chunks = TotalChunks(x_in)
    /\ x_pc' = "returned"
    /\ x_out' = [x_out EXCEPT !.log = @ \o <<"processed", "finish", "features">>,
                              !.finished = TRUE, !.returned = TRUE]
    /\ UNCHANGED <<x_in, x_ops, x_err, x_i, x_check, x_warnings, x_parsed, memo, varsNames, varsOps, varsWr, varsCm, varsRd, varsPv>>

(***************************************************************************)
(* Inputs of the exact_extract specification                               *)
(***************************************************************************)
MaxFeatures == 2
MaxChunks == 2

ExValueSrs == {"None", "A", "A2", "B", "bad"}
ExWeightSrs == {"None", "A", "B"}

ExRasts ==
    {Source(Str("a"), s) : s \in ExValueSrs}
    \cup {[kind |-> "list", items |-> <<Source(Str("a"), s1), Source(Str("b"), s2)>>] :
             s1 \in ExValueSrs, s2 \in ExValueSrs}

ExWeights == {NoneVal} \cup {Source(Str("w"), s) : s \in ExWeightSrs}

ExVecs == {[kind |-> "json", srs |-> s, n |-> MaxFeatures] : s \in {"None", "A", "bad"}}
            \cup {[kind |-> "geopandas", srs |-> s, n |-> MaxFeatures] : s \in {"None", "A"}}

ExStats == {StrReq("mean", Empty), StrReq("weighted_mean", Empty), FnReq(Str("f"), 3),
            [kind |-> "list", items |-> <<StrReq("mean", Empty), StrReq("variance", Empty)>>],
            [kind |-> "list", items |-> <<StrReq("variance", Empty),
                                          StrReq("weighted_mean", Empty)>>],
            [kind |-> "list", items |-> <<FnReq(Str("f"), 2), StrReq("mean", Empty)>>]}

Strategies == {"feature-sequential", "raster-sequential", "raster-parallel"}

\* calls that differ in their sources and statistics, and calls that differ
\* in the features, the progress argument and what raises while processing
ExPlainArgs == [rast : ExRasts, weights : ExWeights, vec : ExVecs, stats : ExStats,
                strategy : Strategies, frac_as_map : {"absent"}, env : Envs,
                progress : {"none"}, tqdm : {FALSE}, chunks : {1}, fails : {NoFails}]
ExRunArgs == [rast : {Source(Str("a"), "None")}, weights : {NoneVal},
              vec : {[kind |-> "json", srs |-> "None", n |-> n] : n \in 0..MaxFeatures},
              stats : {StrReq("mean", Empty), FnReq(Str("f"), 2)},
              strategy : Strategies, frac_as_map : {"absent"},
              env : {[lib |-> "none", exceptions |-> TRUE]},
              progress : {"none", "fn", "true", "other"}, tqdm : BOOLEAN,
              chunks : 1..MaxChunks,
              fails : [stat : 0..MaxFeatures, callback : 0..MaxFeatures]]
\* calls that differ in the frac_as_map entry of output_options
ExMapArgs == [rast : {Source(Str("a"), "None"),
                      [kind |-> "list", items |-> <<Source(Str("a"), "None"),
                                                    Source(Str("b"), "None")>>]},
              weights : {NoneVal},
              vec : {[kind |-> "json", srs |-> "None", n |-> n] : n \in 1..MaxFeatures},
              stats : {StrReq("frac", Empty), StrReq("unique", Empty),
                       [kind |-> "list", items |-> <<StrReq("frac", Empty),
                                                     StrReq("unique", Empty)>>],
                       [kind |-> "list", items |-> <<StrReq("mean", Empty),
                                                     StrReq("frac", Empty)>>]},
              strategy : {"feature-sequential"}, frac_as_map : {"absent", "false", "true"},
              env : {[lib |-> "none", exceptions |-> TRUE]},
              progress : {"none"}, tqdm : {FALSE}, chunks : {1}, fails : {NoFails}]
ExArgs == ExPlainArgs \cup ExRunArgs \cup ExMapArgs

ExCall == AllIdle /\ \E args \in ExArgs : ExStart(args)

NextEx == ExCall \/ ExWarnStep \/ ExValidate \/ ExCreate \/ ExProgress \/ ExChunk
            \/ ExWrite \/ ExFinish

SpecEx == Init /\ [][NextEx]_vars

(***************************************************************************)
(* The writer specification: a Writer is constructed, then operations and  *)
(* columns are declared on it and records are written to it, in any order. *)
(***************************************************************************)
MaxDecl == 2
MaxWrites == 2

FracMap == <<[field |-> <<"frac", "_", "map">>, key_stat |-> "unique", val_stat |-> "frac"]>>

WrConfigs ==
    {NewWriter("json", at, mf, TRUE) : at \in {"numpy", "set"}, mf \in {<<>>, FracAsMap, FracMap}}
    \cup {NewWriter("pandas", "numpy", <<>>, TRUE), NewWriter("qgis", "numpy", <<>>, TRUE)}
    \cup {NewWriter("gdal", "numpy", <<>>, e) : e \in BOOLEAN}

WrOp(name, stat) == [name |-> name, stat |-> stat]
MeanName == Str("mean")
TypeName == Str("type")
FracName == Str("frac")
UniqueName == Str("unique")
TmpUniqueName == DeleteMarker \o UniqueName

WrOpsFor(kind) ==
    IF kind = "json"
    THEN {WrOp(MeanName, "mean"), WrOp(FracName, "frac"), WrOp(UniqueName, "unique"),
          WrOp(TmpUniqueName, "unique")}
    ELSE {WrOp(MeanName, "mean")}
WrColumns == {IdName, TypeName}

Rec(id, props, geom) == [id |-> id, props |-> props, geom |-> geom]
Prop(name, val) == [name |-> name, val |-> val]
FracArr == ArrVal("float64", <<5, 6>>)
KeysArr == ArrVal("int64", <<1, 2>>)

WrRecordsFor(kind) ==
    IF kind = "json"
    THEN {Rec(IntVal(3), <<>>, "Point"),
          Rec(IntVal(3), <<Prop(MeanName, IntVal(9))>>, "Point"),
          Rec(IntVal(3), <<Prop(TypeName, StrVal("apple")), Prop(MeanName, IntVal(9))>>, "Point"),
          Rec(IntVal(3), <<Prop(FracName, FracArr)>>, "Point"),
          Rec(IntVal(3), <<Prop(FracName, FracArr), Prop(UniqueName, KeysArr)>>, "Point"),
          Rec(IntVal(3), <<Prop(FracName, FracArr), Prop(TmpUniqueName, KeysArr)>>, "Point")}
    ELSE {Rec(IntVal(3), pm \o pt, "Point") :
              pm \in {<<>>, <<Prop(MeanName, NoneVal)>>, <<Prop(MeanName, IntVal(9))>>},
              pt \in {<<>>, <<Prop(TypeName, StrVal("apple"))>>}}
         \cup {Rec(Absent, <<Prop(MeanName, IntVal(9))>>, "Point"),
               Rec(IntVal(3), <<Prop(MeanName, IntVal(9))>>, "absent")}

\* Writer(...)
WrNew ==
    /\ AllIdle
    /\ \E w \in WrConfigs : wr' = w
    /\ UNCHANGED <<wr_calls, varsNames, varsOps, varsEx, varsCm, varsRd, varsPv>>

\* writer.add_operation(op)
WrAddOperation ==
    /\ wr.kind # "none"
    /\ Len(Declared(wr)) < MaxDecl
    /\ \E op \in WrOpsFor(wr.kind) : wr' = AddOperation(wr, op)
    /\ UNCHANGED <<wr_calls, varsNames, varsOps, varsEx, varsCm, varsRd, varsPv>>

\* writer.add_column(name)
WrAddColumn ==
    /\ wr.kind \notin {"none", "json"}
    /\ Len(Declared(wr)) < MaxDecl
    /\ \E name \in WrColumns : wr' = AddColumn(wr, name)
    /\ UNCHANGED <<wr_calls, varsNames, varsOps, varsEx, varsCm, varsRd, varsPv>>

\* writer.write(feature)
WrWrite ==
    /\ wr.kind # "none"
    /\ Len(wr_calls) < MaxWrites
    /\ \E rec \in WrRecordsFor(wr.kind) :
          LET out == Write(wr, rec)
          IN  /\ wr' = out.w
              /\ wr_calls' = Append(wr_calls, [rec |-> rec, err |-> out.err,
                                                declared |-> Declared(wr)])
    /\ UNCHANGED <<varsNames, varsOps, varsEx, varsCm, varsRd, varsPv>>

NextWr == WrNew \/ WrAddOperation \/ WrAddColumn \/ WrWrite

SpecWr == Init /\ [][NextWr]_vars

(***************************************************************************)
(* crs_matches called by extraction calls that run at the same time        *)
(*                                                                         *)
(* The cache of functools.cache is one dict of the process.  A call looks  *)
(* its key up, runs the body on a miss and stores what the body returned;  *)
(* other threads run between these steps.  The libraries a process can     *)
(* import do not change while it runs; osr.UseExceptions() and             *)
(* osr.DontUseExceptions() may be called at any time.                      *)
(***************************************************************************)
MaxCalls == 3

CmPairs == {<<"A", "A2">>, <<"A2", "A">>, <<"A", "bad">>, <<"A", "None">>}

\* the cache stores the value under its key, replacing what the key had
MemoStore_firstOnly(m, a, b, val) ==
    {e \in m : e.a # a} \cup {[a |-> a, b |-> b, val |-> val]}

MemoStore(m, a, b, val) ==
    {e \in m : ~(e.a = a /\ e.b = b)} \cup {[a |-> a, b |-> b, val |-> val]}

\* the process starts with the libraries it has
CmStart ==
    /\ AllIdle
    /\ \E env \in Envs : cm_env' = [on |-> TRUE, lib |-> env.lib, exceptions |-> env.exceptions]
    /\ UNCHANGED <<cm_pc, cm_arg, cm_res, cm_seen, cm_n, varsNames, varsOps, varsEx, varsWr, varsRd, varsPv>>

\* osr.UseExceptions() / osr.DontUseExceptions()
CmUseExceptions ==
    /\ cm_env.on /\ cm_env.lib = "osr"
    /\ cm_env' = [cm_env EXCEPT !.exceptions = ~@]
    /\ UNCHANGED <<cm_pc, cm_arg, cm_res, cm_seen, cm_n, varsNames, varsOps, varsEx, varsWr, varsRd, varsPv>>

\* thread t calls crs_matches(a, b): a hit returns the stored value
CmCall(t) ==
    /\ cm_env.on /\ cm_pc[t] = "idle" /\ cm_n < MaxCalls
    /\ \E pr \in CmPairs :
          /\ cm_arg' = [cm_arg EXCEPT ![t] = pr]
          /\ IF MemoHas(memo, pr[1], pr[2])
             THEN /\ cm_seen' = cm_seen \cup {[a |-> pr[1], b |-> pr[2],
                                                val |-> MemoGet(memo, pr[1], pr[2])]}
                  /\ UNCHANGED cm_pc
             ELSE /\ cm_pc' = [cm_pc EXCEPT ![t] = "body"]
                  /\ UNCHANGED cm_seen
    /\ cm_n' = cm_n + 1
    /\ UNCHANGED <<cm_env, cm_res, varsNames, varsOps, varsEx, varsWr, varsRd, varsPv>>

\* the body runs for thread t; an exception leaves the call and the cache
\* as they are
CmBody(t) ==
    /\ cm_pc[t] = "body"
    /\ LET r == CrsBody(cm_arg[t][1], cm_arg[t][2], cm_env)
       IN  IF r.raised # ""
           THEN cm_pc' = [cm_pc EXCEPT ![t] = "idle"] /\ UNCHANGED cm_res
           ELSE /\ cm_pc' = [cm_pc EXCEPT ![t] = "store"]
                /\ cm_res' = [cm_res EXCEPT ![t] = r.val]
    /\ UNCHANGED <<cm_env, cm_arg, cm_seen, cm_n, varsNames, varsOps, varsEx, varsWr, varsRd, varsPv>>

\* the value of thread t is stored and returned
CmStore(t) ==
    /\ cm_pc[t] = "store"
    /\ memo' = MemoStore(memo, cm_arg[t][1], cm_arg[t][2], cm_res[t])
    /\ cm_seen' = cm_seen \cup {[a |-> cm_arg[t][1], b |-> cm_arg[t][2], val |-> cm_res[t]]}
    /\ cm_pc' = [cm_pc EXCEPT ![t] = "idle"]
    /\ UNCHANGED <<cm_env, cm_arg, cm_res, cm_n, varsNames, varsOps, varsWr,
                   x_in, x_pc, x_ops, x_err, x_i, x_check, x_warnings, x_parsed, x_out,
                   varsRd, varsPv>>

CmThread == \E t \in Threads : CmCall(t) \/ CmBody(t) \/ CmStore(t)

NextCm == CmStart \/ CmUseExceptions \/ CmThread

SpecCm == Init /\ [][NextCm]_vars

(***************************************************************************)
(* Raster sources: read_window.                                            *)
(*                                                                         *)
(* An array is a sequence of rows, each a sequence of cells; a window is   *)
(* <<x0, y0, nx, ny>> with x0, y0 counted from 0.  What read_window        *)
(* returns is [kind, dtype, data] for a plain ndarray and                  *)
(* [kind, dtype, data, mask] for a numpy masked array.                     *)
(***************************************************************************)
MaxRows == 2
MaxCols == 3

\* a[lo:hi] along one axis: numpy clips the stop to the length of the axis
PySlice(s, lo, hi) == SubSeq(s, lo + 1, IF hi < Len(s) THEN hi ELSE Len(s))

\* mat[r0:r1, c0:c1]
Slice2(mat, r0, r1, c0, c1) ==
    LET rows == PySlice(mat, r0, r1)
    IN  [i \in 1..Len(rows) |-> PySlice(rows[i], c0, c1)]

\* band.ReadAsArray(xoff, yoff, win_xsize, win_ysize) and
\* ds.read(band_idx, window=Window(x0, y0, nx, ny)): the raw stored cells
ReadAsArray(mat, x0, y0, nx, ny) == Slice2(mat, y0, y0 + ny, x0, x0 + nx)

NdArray(dtype, data) == [kind |-> "ndarray", dtype |-> dtype, data |-> data]
MaskedArray(dtype, data, mask) ==
    [kind |-> "masked", dtype |-> dtype, data |-> data, mask |-> mask]

\* arr == v and arr != v, cell by cell
CellsEq(arr, v) == [i \in 1..Len(arr) |-> [j \in 1..Len(arr[i]) |-> arr[i][j] = v]]
CellsNeq(arr, v) == [i \in 1..Len(arr) |-> [j \in 1..Len(arr[i]) |-> arr[i][j] # v]]
\* arr * k and arr + k, cell by cell
CellsTimes(arr, k) == [i \in 1..Len(arr) |-> [j \in 1..Len(arr[i]) |-> arr[i][j] * k]]
CellsPlus(arr, k) == [i \in 1..Len(arr) |-> [j \in 1..Len(arr[i]) |-> arr[i][j] + k]]

\* raster.py, GDALRasterSource.read_window; src.scale, src.offset and
\* src.nodata are band.GetScale(), band.GetOffset() and band.GetNoDataValue()
GdalReadWindow(src, x0, y0, nx, ny) ==
    LET arr == ReadAsArray(src.mat, x0, y0, nx, ny)
        has_nodata == src.nodata # NoneVal
        scaled == src.scale \notin {NoneVal, IntVal(1)}
        mask1 == IF scaled /\ has_nodata
                 THEN [set |-> TRUE, m |-> CellsEq(arr, src.nodata.i)]
                 ELSE [set |-> FALSE, m |-> <<>>]
        arr1 == IF scaled THEN CellsTimes(arr, src.scale.i) ELSE arr
        shifted == src.offset \notin {NoneVal, IntVal(0)}
        mask2 == IF shifted /\ ~mask1.set /\ has_nodata
                 THEN [set |-> TRUE, m |-> CellsNeq(arr1, src.nodata.i)]
                 ELSE mask1
        arr2 == IF shifted THEN CellsPlus(arr1, src.offset.i) ELSE arr1
        dtype == IF scaled \/ shifted THEN "float64" ELSE src.dtype
    IN  IF mask2.set THEN MaskedArray(dtype, arr2, mask2.m) ELSE NdArray(dtype, arr2)

\* Python truth value of ds.nodata: None and 0 are false
Truthy(v) == v \notin {NoneVal, IntVal(0)}

\* raster.py, RasterioRasterSource.read_window; src.scale and src.offset are
\* ds.scales[band_idx - 1] and ds.offsets[band_idx - 1], never None
RasterioReadWindow(src, x0, y0, nx, ny) ==
    LET arr == ReadAsArray(src.mat, x0, y0, nx, ny)
        scaled == src.scale # IntVal(1) \/ src.offset # IntVal(0)
    IN  IF scaled
        THEN LET out == CellsPlus(CellsTimes(arr, src.scale.i), src.offset.i)
             IN  IF Truthy(src.nodata)
                 THEN MaskedArray("float64", out, CellsEq(arr, src.nodata.i))
                 ELSE NdArray("float64", out)
        ELSE NdArray(src.dtype, arr)

\* raster.py, NumPyRasterSource.read_window: self.mat[y0 : y0 + ny, x0 : x0 + nx]
RasterNumPyReadWindow(src, x0, y0, nx, ny) ==
    NdArray(src.dtype, Slice2(src.mat, y0, y0 + ny, x0, x0 + nx))

\* raster_source.py, NumPyRasterSource.read_window:
\* self.mat[y0 : y0 + ny, x0 : x0 + ny]
RasterSourceNumPyReadWindow(src, x0, y0, nx, ny) ==
    NdArray(src.dtype, Slice2(src.mat, y0, y0 + ny, x0, x0 + ny))

ReadWindow(src, x0, y0, nx, ny) ==
    CASE src.kind = "gdal" -> GdalReadWindow(src, x0, y0, nx, ny)
      [] src.kind = "rasterio" -> RasterioReadWindow(src, x0, y0, nx, ny)
      [] src.kind = "raster.numpy" -> RasterNumPyReadWindow(src, x0, y0, nx, ny)
      [] src.kind = "raster_source.numpy" ->
             RasterSourceNumPyReadWindow(src, x0, y0, nx, ny)

\* the stored arrays: every cell different; cells 0 and 12 in turn; cells 0, 1, 2
Mat(F(_, _)) == [r \in 1..MaxRows |-> [c \in 1..MaxCols |-> F(r, c)]]
RdArrays == {Mat(LAMBDA r, c : 10 * r + c),
             Mat(LAMBDA r, c : 12 * ((r + c) % 2)),
             Mat(LAMBDA r, c : (r * c) % 3)}
RdNodata == {NoneVal, IntVal(0), IntVal(12)}

RdSources ==
    {[kind |-> "gdal", mat |-> m, dtype |-> "int16", scale |-> sc, offset |-> off,
      nodata |-> nd] :
        m \in RdArrays, sc \in {NoneVal, IntVal(1), IntVal(2)},
        off \in {NoneVal, IntVal(0), IntVal(3)}, nd \in RdNodata}
    \cup
    {[kind |-> "rasterio", mat |-> m, dtype |-> "int16", scale |-> sc, offset |-> off,
      nodata |-> nd] :
        m \in RdArrays, sc \in {IntVal(1), IntVal(2)}, off \in {IntVal(0), IntVal(3)}, nd \in RdNodata}
    \cup
    {[kind |-> k, mat |-> m, dtype |-> "int16", scale |-> NoneVal, offset |-> NoneVal,
      nodata |-> nd] :
        k \in {"raster.numpy", "raster_source.numpy"}, m \in RdArrays,
        nd \in {NoneVal, IntVal(0)}}

\* the windows that lie inside an array of MaxRows rows and MaxCols columns
RdWindows ==
    {<<x0, y0, nx, ny>> : x0 \in 0..(MaxCols - 1), y0 \in 0..(MaxRows - 1),
                          nx \in 1..MaxCols, ny \in 1..MaxRows}

\* a RasterSource is built over a stored array
RdOpen ==
    /\ AllIdle
    /\ \E src \in RdSources : rd_src' = src
    /\ UNCHANGED <<rd_out, varsNames, varsOps, varsEx, varsWr, varsCm, varsPv>>

\* source.read_window(x0, y0, nx, ny), as the engine calls it
RdReadWindow ==
    /\ rd_src.kind # "none"
    /\ \E w \in RdWindows :
          /\ w[1] + w[3] <= MaxCols
          /\ w[2] + w[4] <= MaxRows
          /\ rd_out' = [win |-> w, res |-> ReadWindow(rd_src, w[1], w[2], w[3], w[4])]
    /\ UNCHANGED <<rd_src, varsNames, varsOps, varsEx, varsWr, varsCm, varsPv>>

NextRd == RdOpen \/ RdReadWindow

SpecRd == Init /\ [][NextRd]_vars

(***************************************************************************)
(* prep_vec: the probes of the vector backends.                            *)
(*                                                                         *)
(* The argument is [kind, ...]: a FeatureSource, a list of dicts (items    *)
(* tells which of them have the key "geometry"), a dict, a path (opens is  *)
(* the set of libraries whose open succeeds on the file), an object of one *)
(* of the libraries, or anything else.                                     *)
(***************************************************************************)
VecLibs == {"osgeo", "fiona", "geopandas", "qgis"}

PvNone == [kind |-> "None"]
Handle(k) == [kind |-> k]

PvInputs ==
    {Handle("FeatureSource"), Handle("other")}
    \cup {[kind |-> "list", items |-> it] : it \in {<<>>, <<TRUE>>, <<FALSE>>}}
    \cup {[kind |-> "dict", geometry |-> g] : g \in BOOLEAN}
    \cup {[kind |-> "path", opens |-> o] : o \in SUBSET {"osgeo", "fiona"}}
    \cup {Handle(k) : k \in {"gdal.Dataset", "ogr.DataSource", "ogr.Layer",
                             "fiona.Collection", "GeoDataFrame", "QgsVectorLayer"}}

PvPass(vec) == [how |-> "pass", vec |-> vec, err |-> "", msg |-> "", source |-> "None"]
PvReturn(vec, source) ==
    [how |-> "return", vec |-> vec, err |-> "", msg |-> "", source |-> source]
PvRaise(vec, err, msg) ==
    [how |-> "raise", vec |-> vec, err |-> err, msg |-> msg, source |-> "None"]

\* ogr.Open(str(vec)): a handle, or on failure None (RuntimeError once
\* UseExceptions() is on)
OgrOpen(vec, exceptions) ==
    IF "osgeo" \in vec.opens THEN [err |-> "", vec |-> Handle("ogr.DataSource")]
    ELSE IF exceptions THEN [err |-> "RuntimeError", vec |-> vec]
    ELSE [err |-> "", vec |-> PvNone]

\* fiona.open(vec): a collection, or DriverError
FionaOpen(vec) ==
    IF "fiona" \in vec.opens THEN [err |-> "", vec |-> Handle("fiona.Collection")]
    ELSE [err |-> "DriverError", vec |-> vec]

\* the checks made before any library is imported
ProbeDirect(vec) ==
    IF vec.kind = "FeatureSource" THEN PvReturn(vec, "FeatureSource")
    ELSE IF vec.kind = "list" /\ Len(vec.items) > 0 /\ vec.items[1]
    THEN PvReturn(vec, "JSONFeatureSource")
    ELSE IF vec.kind = "dict" /\ vec.geometry THEN PvReturn(vec, "JSONFeatureSource")
    ELSE PvPass(vec)

\* the body of the try block of osgeo
ProbeOgr(vec, exceptions) ==
    LET opened == IF IsPath(vec) THEN OgrOpen(vec, exceptions)
                  ELSE [err |-> "", vec |-> vec]
    IN  IF opened.err # "" THEN PvRaise(vec, opened.err, "")
        ELSE IF opened.vec.kind \in {"gdal.Dataset", "ogr.DataSource", "ogr.Layer"}
        THEN PvReturn(opened.vec, "GDALFeatureSource")
        ELSE PvPass(opened.vec)

\* the body of the try block of fiona
ProbeFiona(vec) ==
    LET opened == IF IsPath(vec) THEN FionaOpen(vec) ELSE [err |-> "", vec |-> vec]
    IN  IF opened.err # "" THEN PvRaise(vec, opened.err, "")
        ELSE IF opened.vec.kind = "fiona.Collection"
        THEN PvReturn(opened.vec, "JSONFeatureSource")
        ELSE PvPass(opened.vec)

\* the body of the try block of geopandas
ProbeGeopandas(vec) ==
    IF vec.kind = "GeoDataFrame" THEN PvReturn(vec, "GeoPandasFeatureSource")
    ELSE PvPass(vec)

\* the body of the try block of qgis.core
ProbeQgis(vec) ==
    IF vec.kind = "QgsVectorLayer" THEN PvReturn(vec, "QGISFeatureSource")
    ELSE PvPass(vec)

Probe(lib, vec, exceptions) ==
    CASE lib = "direct" -> ProbeDirect(vec)
      [] lib = "osgeo" -> ProbeOgr(vec, exceptions)
      [] lib = "fiona" -> ProbeFiona(vec)
      [] lib = "geopandas" -> ProbeGeopandas(vec)
      [] lib = "qgis" -> ProbeQgis(vec)

\* the order of the probes; after the last one the function raises
ProbeOrder == <<"direct", "osgeo", "fiona", "geopandas", "qgis">>
NextProbe(lib) ==
    IF lib = "qgis" THEN "end"
    ELSE ProbeOrder[(CHOOSE i \in 1..Len(ProbeOrder) : ProbeOrder[i] = lib) + 1]

UnhandledFeature == "Unhandled feature datatype"

\* prep_vec(vec) is called
PvCall ==
    /\ AllIdle
    /\ \E vec \in PvInputs, libs \in SUBSET VecLibs, ex \in BOOLEAN :
          /\ pv_in' = [vec |-> vec, libs |-> libs, exceptions |-> ex]
          /\ pv_vec' = vec
    /\ pv_pc' = "direct"
    /\ UNCHANGED <<pv_seen, pv_ret, varsNames, varsOps, varsEx, varsWr, varsCm, varsRd>>

\* one probe: the import fails with ImportError, which is passed over, or
\* the body of the try block runs on the local variable vec
PvProbe ==
    /\ pv_pc \in {ProbeOrder[i] : i \in 1..Len(ProbeOrder)}
    /\ IF pv_pc # "direct" /\ pv_pc \notin pv_in.libs
       THEN /\ pv_pc' = NextProbe(pv_pc)
            /\ UNCHANGED <<pv_vec, pv_seen, pv_ret>>
       ELSE LET r == Probe(pv_pc, pv_vec, pv_in.exceptions)
            IN  /\ pv_seen' = Append(pv_seen, [lib |-> pv_pc, vec |-> pv_vec])
                /\ pv_vec' = r.vec
                /\ IF r.how = "pass"
                   THEN pv_pc' = NextProbe(pv_pc) /\ UNCHANGED pv_ret
                   ELSE /\ pv_pc' = IF r.how = "return" THEN "returned" ELSE "raised"
                        /\ pv_ret' = [err |-> r.err, msg |-> r.msg, source |-> r.source]
    /\ UNCHANGED <<pv_in, varsNames, varsOps, varsEx, varsWr, varsCm, varsRd>>

\* raise Exception("Unhandled feature datatype")
PvUnhandled ==
    /\ pv_pc = "end"
    /\ pv_pc' = "raised"
    /\ pv_ret' = [err |-> "Exception", msg |-> UnhandledFeature, source |-> "None"]
    /\ UNCHANGED <<pv_in, pv_vec, pv_seen, varsNames, varsOps, varsEx, varsWr, varsCm,
                   varsRd>>

NextPv == PvCall \/ PvProbe \/ PvUnhandled

SpecPv == Init /\ [][NextPv]_vars

\* the default specification: any one of the calls the model covers
Next == NextNames \/ NextOps \/ NextEx \/ NextWr \/ NextCm \/ NextRd \/ NextPv
Spec == Init /\ [][Next]_vars

(***************************************************************************)
(* Reading a prep_ops call and its outcome                                 *)
(***************************************************************************)
CallItems == IF ops_call.stats.kind = "list" THEN ops_call.stats.items
             ELSE <<ops_call.stats>>
CallValues == ops_call.values
CallWeights == IF ops_call.weights.kind = "none" THEN <<>> ELSE ops_call.weights.items
OpsCalled == ops_ret.err # "idle"
OpsReturned == ops_ret.err = ""

\* a request the builder names itself
IsNamed(req) == req.kind = "str" \/ (req.kind = "callable" /\ req.nargs \in {2, 3})
IsWeightedReq(req) ==
    \/ req.kind = "str" /\ req.stat \in {"weighted_mean", "weighted_sum", "weighted_frac"}
    \/ req.kind = "callable" /\ req.nargs = 3

\* the zip-or-recycle rule, by cases
LengthsAccepted(V, W) ==
    \/ Len(V) = Len(W)
    \/ Len(V) = 1 /\ Len(W) > 1
    \/ Len(W) = 1 /\ Len(V) > 1
ClaimedPairs(V, W) ==
    IF Len(V) = Len(W) THEN [i \in 1..Len(V) |-> <<V[i], W[i]>>]
    ELSE IF Len(V) = 1 THEN [i \in 1..Len(W) |-> <<V[1], W[i]>>]
    ELSE IF Len(W) = 1 THEN [i \in 1..Len(V) |-> <<V[i], W[1]>>]
    ELSE [i \in 1..Len(V) |-> <<V[i], NoneVal>>]

\* how many operations request k contributes, and where they start
ReqCount(req) == IF req.kind = "op" THEN 1 ELSE NPairs(CallValues, CallWeights)
RECURSIVE Offset(_)
Offset(k) == IF k = 1 THEN 0 ELSE Offset(k - 1) + ReqCount(CallItems[k - 1])

(***************************************************************************)
(* C1: the pairing rule.                                                   *)
(***************************************************************************)
\* C1: with a weighted stat, equal lengths pair positionally, a side of
\* length 1 is recycled against every element of the other, every other
\* combination is an error that returns no operation; each (pair, requested
\* stat) yields exactly one operation.
C1_Pairing ==
    OpsCalled =>
      /\ ((\E k \in 1..Len(CallItems) : IsWeightedReq(CallItems[k]))
             /\ ~LengthsAccepted(CallValues, CallWeights))
            => (ops_ret.err # "" /\ ops_ret.ops = <<>>)
      /\ (OpsReturned /\ \E k \in 1..Len(CallItems) : IsWeightedReq(CallItems[k])) =>
            LET pairs == ClaimedPairs(CallValues, CallWeights)
            IN  /\ \A k \in 1..Len(CallItems) :
                      IsNamed(CallItems[k]) =>
                         \A i \in 1..Len(pairs) :
                            LET op == ops_ret.ops[Offset(k) + i]
                            IN  <<op.values, op.weights>> = pairs[i]
                /\ ~ops_call.add_unique =>
                      Len(ops_ret.ops) = Offset(Len(CallItems)) + ReqCount(CallItems[Len(CallItems)])

\* one weight source was recycled over three value sources by a weighted
\* callable and a weighted keyword
C1_Witness ==
    /\ OpsReturned
    /\ Len(CallValues) = 3 /\ Len(CallWeights) = 1
    /\ \E k \in 1..Len(CallItems) : CallItems[k].kind = "callable" /\ CallItems[k].nargs = 3
    /\ Len(ops_ret.ops) >= 3

(***************************************************************************)
(* C2: field names are unique within one call.                             *)
(***************************************************************************)
\* C2: no two operations returned by one prep_ops call share a field name.
C2_UniqueNames ==
    OpsReturned =>
        \A i, j \in 1..Len(ops_ret.ops) :
            i # j => ops_ret.ops[i].name # ops_ret.ops[j].name

(***************************************************************************)
(* C3: field naming.                                                       *)
(***************************************************************************)
ReqBase(req) ==
    IF req.kind = "callable" THEN req.fname
    ELSE IF req.alias # Empty THEN req.alias
    ELSE StatStr(req.stat)

ClaimedFieldName(req, pair, npairs) ==
    IF npairs = 1 THEN ReqBase(req)
    ELSE IF IsWeightedReq(req)
         THEN pair[1].name \o <<"_">> \o pair[2].name \o <<"_">> \o ReqBase(req)
         ELSE pair[1].name \o <<"_">> \o ReqBase(req)

\* C3: one pair gives the bare stat name (or alias); several pairs add the
\* value source's name and, for a weighted stat, the weight source's name;
\* values a and b with stats count and mean give a_count, a_mean, b_count,
\* b_mean.
C3_FieldNaming ==
    (OpsReturned /\ ~ops_call.add_unique) =>
      /\ \A k \in 1..Len(CallItems) :
            IsNamed(CallItems[k]) =>
               \A i \in 1..NPairs(CallValues, CallWeights) :
                  ops_ret.ops[Offset(k) + i].name =
                     ClaimedFieldName(CallItems[k],
                                      <<ops_ret.ops[Offset(k) + i].values,
                                        ops_ret.ops[Offset(k) + i].weights>>,
                                      NPairs(CallValues, CallWeights))
      /\ (CallItems = <<StrReq("count", Empty), StrReq("mean", Empty)>>
            /\ CallValues = <<Source(Str("a"), "None"), Source(Str("b"), "None")>>
            /\ CallWeights = <<>>) =>
            {ops_ret.ops[i].name : i \in 1..Len(ops_ret.ops)} =
               {<<"a", "_", "count">>, <<"a", "_", "mean">>,
                <<"b", "_", "count">>, <<"b", "_", "mean">>}

(***************************************************************************)
(* C5: arity-based classification of callbacks.                            *)
(***************************************************************************)
\* C5: a callback of 2 arguments is unweighted, one of 3 is weighted, and any
\* other arity is rejected at construction, through prep_ops and through
\* PythonOperation alike.
C5_ArityValidated ==
    /\ (OpsCalled /\ Head(CallItems).kind = "callable"
          /\ Head(CallItems).nargs \notin {2, 3}) => ops_ret.err # ""
    /\ OpsReturned =>
          \A i \in 1..Len(ops_ret.ops) :
              ops_ret.ops[i].py =>
                 \E k \in 1..Len(CallItems) :
                    /\ CallItems[k].kind = "callable"
                    /\ CallItems[k].nargs \in {2, 3}
                    /\ ops_ret.ops[i].weighted = (CallItems[k].nargs = 3)
    /\ (pyop_ret.err # "idle" /\ pyop_call.fn.nargs \notin {2, 3}) => pyop_ret.err # ""
    /\ pyop_ret.err = "" =>
          /\ pyop_call.fn.nargs \in {2, 3}
          /\ pyop_ret.ops[1].weighted = (pyop_call.fn.nargs = 3)

(***************************************************************************)
(* C4: band naming on multi-band expansion.                                *)
(***************************************************************************)
\* the name the claim gives band i of a raster whose root name is root
BandName(root, i) ==
    IF root = Empty THEN <<"band", "_", ToString(i)>>
    ELSE root \o <<"_", "band", "_", ToString(i)>>

ClaimedNames(root, nbands) ==
    IF nbands > 1 THEN [i \in 1..nbands |-> BandName(root, i)] ELSE <<root>>

\* basename without extension, tabulated for the paths of the model
Stem(p) ==
    CASE p = <<"r1", ".", "tif">> -> <<"r1">>
      [] p = <<"d", "/", "r2", ".", "tif">> -> <<"r2">>
      [] p = <<"d", "/", "r1">> -> <<"r1">>
      [] p = <<"d", ".", "x", "/", ".", "nc">> -> <<".", "nc">>

SourceNames(sources) == [i \in 1..Len(sources) |-> sources[i].name]

\* C4: make_raster_names gives root_band_i / root / band_i / "" by root and
\* band count; a list of file paths names each file's bands from the file's
\* basename without extension; a single non-list weights input is named from
\* the root "weight".
C4_BandNaming ==
    /\ names_ret # <<>> =>
          LET root == names_call.root
              n == names_call.nbands
          IN  /\ (root # Empty /\ n > 1) =>
                    /\ Len(names_ret) = n
                    /\ \A i \in 1..n : names_ret[i] = root \o <<"_", "band", "_", ToString(i)>>
              /\ (root # Empty /\ n = 1) => names_ret = <<root>>
              /\ (root = Empty /\ n > 1) =>
                    /\ Len(names_ret) = n
                    /\ \A i \in 1..n : names_ret[i] = <<"band", "_", ToString(i)>>
              /\ (root = Empty /\ n = 1) => names_ret = <<Empty>>
    /\ (praster_ret.err = "" /\ praster_call.rast.kind = "list"
          /\ \A i \in 1..Len(praster_call.rast.items) : IsPath(praster_call.rast.items[i])) =>
          LET items == praster_call.rast.items
          IN  SourceNames(praster_ret.sources) =
                 SeqConcat([i \in 1..Len(items) |->
                               ClaimedNames(Stem(items[i].path), items[i].nbands)])
    /\ (praster_ret.err = "" /\ praster_call.role = "weights"
          /\ praster_call.rast.kind \in {"path", "dataset"}
          /\ praster_call.rast.subs = <<>>) =>
          SourceNames(praster_ret.sources) =
              ClaimedNames(<<"weight">>, praster_call.rast.nbands)

\* a list of two multi-band files was expanded, and a multi-band weights file
C4_Witness ==
    /\ praster_ret.err = ""
    /\ praster_call.rast.kind = "list"
    /\ Len(praster_call.rast.items) = 2
    /\ \A i \in 1..2 : IsPath(praster_call.rast.items[i]) /\ praster_call.rast.items[i].nbands > 1
    /\ Len(praster_ret.sources) = 2 * praster_call.rast.items[1].nbands

(***************************************************************************)
(* Reading an exact_extract call and its outcome                           *)
(***************************************************************************)
ExCalled == x_pc # "idle"
ExItems == IF x_in.stats.kind = "list" THEN x_in.stats.items ELSE <<x_in.stats>>
ExStage == IF x_pc # "raised" THEN x_pc
           ELSE IF x_ops = <<>> THEN "building"
           ELSE IF x_i <= Len(x_ops) THEN "crs"
           ELSE IF ~x_out.writer
                THEN (IF x_err.err = "ValueError" THEN "validating" ELSE "creating")
           ELSE IF x_out.log = <<>> THEN "progress"
           ELSE "processing"
NothingDone == x_out = NoOut
SomeWeighted(items) == \E i \in 1..Len(items) : IsWeightedReq(items[i])
FirstWeighted(items) ==
    CHOOSE i \in 1..Len(items) :
        IsWeightedReq(items[i]) /\ \A j \in 1..(i - 1) : ~IsWeightedReq(items[j])
\* the requests before the first weighted one are all built without error
BuiltUpTo(items, k) ==
    \A j \in 1..(k - 1) :
        items[j].kind \in {"str", "op"} \/ (items[j].kind = "callable" /\ items[j].nargs = 2)
SaysNoWeights(e) == e.err # "" /\ StrContains(e.msg, <<"No weights provided">>)

\* C6: a weighted statistic (a weighted keyword or a 3-argument callable)
\* requested without any weight source makes the call raise an error whose
\* message contains "No weights provided", with no writer or processor
\* created and no feature written; and a RuntimeError of another kind met
\* while the operations of a callable are built leaves prep_ops unchanged.
C6_NoWeights ==
    /\ (ExCalled /\ x_in.weights = NoneVal /\ SomeWeighted(ExItems))
            => (x_pc = "raised" /\ ExStage = "building" /\ SaysNoWeights(x_err)
                /\ NothingDone /\ x_warnings = <<>>)
    /\ (OpsCalled /\ CallWeights = <<>> /\ SomeWeighted(CallItems)
            /\ BuiltUpTo(CallItems, FirstWeighted(CallItems)))
            => SaysNoWeights(ops_ret)
    /\ (OpsCalled /\ CallWeights # <<>> /\ ~LengthsAccepted(CallValues, CallWeights)
            /\ CallItems[1].kind = "callable" /\ CallItems[1].nargs \in {2, 3})
            => ops_ret = Raise("RuntimeError", BadLengthsMsg)

C6_Witness ==
    /\ x_pc = "raised"
    /\ x_in.stats = FnReq(Str("f"), 3)
    /\ x_in.weights = NoneVal
    /\ x_err = [err |-> "Exception", msg |-> MissingWeightsMsg(FnReq(Str("f"), 3))]
    /\ NothingDone

\* C7: under raster-parallel a call that reaches the strategy check with
\* an operation that is weighted or requires variance raises ValueError for
\* the first such operation in list order (the weighted message when that
\* operation is weighted), with no writer or processor created and nothing
\* written; under the sequential strategies no such error is raised.
IsOffending(op) == OpWeighted(op) \/ OpRequiresVariance(op)
FirstOffending(ops) ==
    CHOOSE i \in 1..Len(ops) : IsOffending(ops[i]) /\ \A j \in 1..(i - 1) : ~IsOffending(ops[j])
StrategyMsgs == {WeightedMsg, VarianceMsg}

Count(seq, x) == Cardinality({i \in 1..Len(seq) : seq[i] = x})
\* the loop of warn_on_crs_mismatch has run over every operation
CrsDone == ExStage \in {"validating", "validated", "creating", "created", "progress",
                         "processing", "returned"}
              \/ (x_pc = "crs" /\ x_i > Len(x_ops))
\* the loop has ended, by running out of operations or by an exception
CrsEnded == CrsDone \/ (x_pc = "raised" /\ ExStage = "crs")
\* the comparison of the two references yields False (a comparison that
\* cannot be carried out yields nothing)
Mismatch(a, b) ==
    /\ a # "None" /\ b # "None" /\ a # b
    /\ \/ x_in.env.lib = "none"
       \/ Parsable(a) /\ Parsable(b) /\ Crs(a) # Crs(b)
       \/ (~Parsable(a) \/ ~Parsable(b)) /\ x_in.env.lib = "osr" /\ ~x_in.env.exceptions
ValueMismatch == \E i \in 1..Len(x_ops) : Mismatch(x_in.vec.srs, x_ops[i].values.srs)
WeightMismatch ==
    \E i \in 1..Len(x_ops) :
        x_ops[i].weights # NoneVal /\ Mismatch(x_in.vec.srs, x_ops[i].weights.srs)

\* C8: in every state of a call each category of CRS warning has been
\* emitted at most once, and when warn_on_crs_mismatch has ended a category
\* has been emitted exactly when some operation's raster of that category
\* does not match the reference of the feature source.
C8_OneWarningPerCategory ==
    /\ Count(x_warnings, WarnValues) <= 1
    /\ Count(x_warnings, WarnWeights) <= 1
    /\ (ExCalled /\ CrsEnded) =>
            /\ (Count(x_warnings, WarnValues) = 1) <=> ValueMismatch
            /\ (Count(x_warnings, WarnWeights) = 1) <=> WeightMismatch

\* C9: crs_matches has returned True for every pair with an undefined side
\* and for every pair of identical strings, no such pair reached a parsing
\* library, and a call whose feature source has no reference, or whose
\* rasters all have none, has emitted no warning.
RastersUndefined ==
    \A i \in 1..Len(x_ops) :
        /\ x_ops[i].values.srs = "None"
        /\ x_ops[i].weights # NoneVal => x_ops[i].weights.srs = "None"

C9_UndefinedMatches ==
    /\ \A e \in memo : (e.a = "None" \/ e.b = "None" \/ e.a = e.b) => e.val
    /\ \A pr \in x_parsed : pr[1] # "None" /\ pr[2] # "None" /\ pr[1] # pr[2]
    /\ (ExCalled /\ x_in.vec.srs = "None") => x_warnings = <<>>
    /\ (ExCalled /\ ExStage # "building" /\ RastersUndefined) => x_warnings = <<>>

C9_Witness ==
    /\ x_pc = "returned"
    /\ x_in.vec.srs = "A"
    /\ x_in.env.lib = "none"
    /\ Len(x_ops) = 2
    /\ RastersUndefined
    /\ x_ops[1].weights # NoneVal
    /\ [a |-> "A", b |-> "None", val |-> TRUE] \in memo
    /\ x_parsed = {}
    /\ x_warnings = <<>>

\* C10: the CRS check never raises: a call that has built its operations
\* never ends inside the loop of warn_on_crs_mismatch.
C10_NeverRaises == ~(x_pc = "raised" /\ ExStage = "crs")

(***************************************************************************)
(* Reading a writer and the write calls made on it                         *)
(***************************************************************************)
SeqSet(q) == {q[i] : i \in 1..Len(q)}
FieldsOf(rec) == SeqSet(JsonFields(rec))
\* the writer had declarations when its first record arrived
Eager == wr_calls # <<>> /\ wr_calls[1].declared # <<>>
\* the writer never had a declaration
Lazy == wr.kind # "none" /\ Declared(wr) = <<>>
           /\ \A i \in 1..Len(wr_calls) : wr_calls[i].declared = <<>>
\* the rows of the final result and the columns of each
RowCount(w) == IF w.kind = "pandas" THEN PandasFeatures(w).nrows ELSE Len(w.rows)
RowColumns(w, i) ==
    CASE w.kind = "json" -> FieldsOf(w.rows[i])
      [] w.kind = "pandas" -> SeqSet(PandasFeatures(w).columns)
      [] OTHER -> {w.layer.fields[j].name : j \in 1..Len(w.layer.fields)}
Observed == UNION {FieldsOf(wr_calls[i].rec) : i \in 1..Len(wr_calls)}

\* C11: on an eager writer of any backend a write raises when the record
\* has a field that is not among the declarations, and does not raise when
\* the record has exactly the declared fields.
C11_EagerSchema ==
    Eager =>
        \A i \in 1..Len(wr_calls) :
            LET c == wr_calls[i]
            IN  /\ ~(FieldsOf(c.rec) \subseteq SeqSet(c.declared)) => c.err # ""
                /\ FieldsOf(c.rec) = SeqSet(c.declared) => c.err = ""

\* C12: on a lazy writer the final result has one row per write call and
\* every row has every column observed in any record.
C12_LazySchema ==
    Lazy =>
        /\ RowCount(wr) = Len(wr_calls)
        /\ \A i \in 1..RowCount(wr) : RowColumns(wr, i) = Observed

(***************************************************************************)
(* Reading the records a JSONWriter emitted                                *)
(***************************************************************************)
\* the write calls that returned; the i-th produced the i-th emitted record
Succeeded == SelectSeq(wr_calls, LAMBDA c : c.err = "")
\* the writer as it was when call c was made (operations are only appended)
WriterAt(c) ==
    [wr EXCEPT !.ops = SubSeq(wr.ops, 1, Len(c.declared)),
               !.remove = \E k \in 1..Len(c.declared) : StartsWith(c.declared[k], DeleteMarker)]
\* the record as write has it before folding
Unfolded(c) == FillMissing(WriterAt(c).ops, CopyToJson(c.rec, EmptyFeature).props)
\* the (keys field, values field) pairs that the folding of call c consumed
FoldedPairs(c) ==
    UNION {LET ks == FieldsForStat(WriterAt(c), WriterAt(c).map_fields[m].key_stat)
               vs == FieldsForStat(WriterAt(c), WriterAt(c).map_fields[m].val_stat)
           IN  {<<ks[j], vs[j]>> : j \in 1..(IF Len(ks) = Len(vs) THEN Len(ks) ELSE 0)}
           : m \in 1..Len(wr.map_fields)}

\* C13: folding an already folded record changes nothing, for every
\* map_fields configuration, the one of frac_as_map included.
C13_FoldIdempotent ==
    wr.kind = "json" =>
        \A i \in 1..Len(Succeeded) :
            LET c == Succeeded[i]
                once == CreateMapFields(WriterAt(c), Unfolded(c))
                twice == CreateMapFields(WriterAt(c), once.props)
            IN  once.err = "" => (twice.err = "" /\ twice.props = once.props)

\* C14: in a record a JSONWriter emitted, the keys field and the values
\* array of a folded pair whose keys field carries the marker are gone, no
\* property carries the marker, and every unmarked field of the incoming
\* record is kept.
C14_RemovableMarker ==
    wr.kind = "json" =>
        \A i \in 1..Len(Succeeded) :
            LET c == Succeeded[i]
                row == wr.rows[i].props
            IN  /\ \A pr \in FoldedPairs(c) :
                      StartsWith(pr[1], DeleteMarker) =>
                          /\ pr[1] \notin PropNames(row)
                          /\ pr[2] \in PropNames(row) => TypeOf(PropGet(row, pr[2])) = "dict"
                /\ \A name \in PropNames(row) : ~StartsWith(name, DeleteMarker)
                /\ \A name \in PropNames(c.rec.props) :
                      ~StartsWith(name, DeleteMarker) => name \in PropNames(row)

(***************************************************************************)
(* Reading the layer a GDALWriter created                                  *)
(***************************************************************************)
LayerNames == [i \in 1..Len(wr.layer.fields) |-> wr.layer.fields[i].name]
\* the write calls that got as far as the layer
Reached == SelectSeq(wr_calls, LAMBDA c : c.err # "KeyError")

\* C18: a GDALWriter has no layer before its first write, the schema of
\* its layer lists the names declared before that write in declaration
\* order, and the type of every field is the type of the values written
\* to it, also when the first record held none.
C18_GdalSchema ==
    wr.kind = "gdal" =>
        /\ Len(wr_calls) = 0 => wr.layer = NoneVal
        /\ wr.layer # NoneVal =>
              /\ SelectSeq(LayerNames, LAMBDA n : n \in SeqSet(Reached[1].declared))
                    = Reached[1].declared
              /\ \A i \in 1..Len(wr.layer.fields), j \in 1..Len(wr_calls) :
                    LET fld == wr.layer.fields[i]
                        props == wr_calls[j].rec.props
                    IN  (fld.name \in PropNames(props) /\ PropGet(props, fld.name) # NoneVal)
                            => OgrType(PropGet(props, fld.name)) = fld.type

(***************************************************************************)
(* C19: the order of the operations prep_ops returns.                      *)
(***************************************************************************)
\* the operations the requests themselves account for
RequestedLen == Offset(Len(CallItems)) + ReqCount(CallItems[Len(CallItems)])
\* operation op is the i-th operation of request req
FromRequest(op, req, i) ==
    CASE req.kind = "str" ->
            ~op.py /\ op.stat = req.stat /\ op.values = PairValue(CallValues, i)
      [] req.kind = "callable" -> op.py /\ op.values = PairValue(CallValues, i)
      [] req.kind = "op" -> op = req.op
      [] OTHER -> FALSE

\* C19: the returned list holds, request after request in request order,
\* the operations of that request over the pairs in source order; an
\* explicit Operation stands at its own position unchanged; whatever the
\* map-field support injects comes after all of them.
C19_StatMajorOrder ==
    OpsReturned =>
        /\ Len(ops_ret.ops) >= RequestedLen
        /\ \A k \in 1..Len(CallItems) :
              \A i \in 1..ReqCount(CallItems[k]) :
                  FromRequest(ops_ret.ops[Offset(k) + i], CallItems[k], i)
        /\ \A j \in (RequestedLen + 1)..Len(ops_ret.ops) :
              /\ StartsWith(ops_ret.ops[j].name, DeleteMarker)
              /\ ops_ret.ops[j].stat = "unique"

\* two different requests over two value sources, with an injected
\* operation behind them
C19_Witness ==
    /\ OpsReturned
    /\ Len(CallItems) = 2 /\ CallItems[1] # CallItems[2]
    /\ Len(CallValues) >= 2
    /\ Len(ops_ret.ops) > RequestedLen
    /\ RequestedLen >= 4

(***************************************************************************)
(* C20: the unique operations injected for map fields.                     *)
(***************************************************************************)
Requested == SubSeq(ops_ret.ops, 1, RequestedLen)
Injected == SubSeq(ops_ret.ops, RequestedLen + 1, Len(ops_ret.ops))
IsFrac(op) == ~op.py /\ op.stat \in {"frac", "weighted_frac"}
IsUnique(op) == ~op.py /\ op.stat = "unique"

\* C20: after a prep_ops call with add_unique, every frac or weighted_frac
\* operation has a unique operation of its key in the list; the injected
\* operations are unique operations for keys no requested unique
\* operation has, one for each such key, named with the '@delete@' prefix;
\* the requested operations are the ones the call returns without
\* add_unique.
C20_MapFieldSynthesis ==
    (OpsReturned /\ ops_call.add_unique) =>
        /\ \A i \in 1..Len(ops_ret.ops) :
              IsFrac(ops_ret.ops[i]) =>
                  \E j \in 1..Len(ops_ret.ops) :
                      IsUnique(ops_ret.ops[j]) /\ Key(ops_ret.ops[j]) = Key(ops_ret.ops[i])
        /\ \A j \in 1..Len(Injected) :
              /\ IsUnique(Injected[j])
              /\ StartsWith(Injected[j].name, DeleteMarker)
              /\ \A i \in 1..Len(Requested) :
                    IsUnique(Requested[i]) => Key(Requested[i]) # Key(Injected[j])
              /\ \A i \in 1..Len(Injected) :
                    i # j => Key(Injected[i]) # Key(Injected[j])
        /\ Requested = PrepOps(ops_call.stats, ops_call.values, ops_call.weights, FALSE).ops

\* frac over two sources, with a unique operation of the caller for the
\* first source only: one operation is injected, for the second source
C20_Witness ==
    /\ OpsReturned /\ ops_call.add_unique
    /\ \E i \in 1..Len(Requested) : IsFrac(Requested[i])
    /\ \E i \in 1..Len(Requested) : IsUnique(Requested[i])
    /\ Len(Injected) = 1

(***************************************************************************)
(* Reading the processing of an exact_extract call                         *)
(***************************************************************************)
ExReturned == x_pc = "returned"
Sequential == x_in.strategy \in {"feature-sequential", "raster-sequential"}
Fracs == x_out.fracs
Delivered == [i \in 1..Len(x_out.order) |-> x_out.order[i].f]
LogCount(word) == Count(x_out.log, word)

\* C15: with a progress callback installed, the fractions it receives
\* never decrease and lie in [0, 1]; when the extraction of at least one
\* feature returns, the last one is exactly 1; under feature-sequential
\* the callback has then been invoked once per feature.
C15_Progress ==
    (ExCalled /\ x_out.fn # "none") =>
        /\ \A i \in 1..(Len(Fracs) - 1) : FracLeq(Fracs[i], Fracs[i + 1])
        /\ \A i \in 1..Len(Fracs) :
              Fracs[i].den > 0 /\ 0 <= Fracs[i].num /\ Fracs[i].num <= Fracs[i].den
        /\ (ExReturned /\ x_in.vec.n > 0) =>
              (Fracs # <<>> /\ FracIsOne(Fracs[Len(Fracs)]))
        /\ (ExReturned /\ x_in.strategy = "feature-sequential") =>
              Len(Fracs) = x_in.vec.n

\* the caller's function saw one fraction per feature of a feature-sequential run
C15_Witness ==
    /\ ExReturned
    /\ x_in.strategy = "feature-sequential"
    /\ x_out.fn = "user"
    /\ x_in.vec.n >= 2
    /\ Len(Fracs) = x_in.vec.n
    /\ ~FracIsOne(Fracs[1])

WriterError == JsonWrite(x_out.jw, EngineRecord(x_ops, x_out.written + 1)).err

\* C17: finish() is called at most once and directly after process() has
\* returned, features() is read directly after finish(), and a call that
\* returns has done each once; a call that raised has called neither, has
\* returned nothing, and the exception of a custom statistic or of the
\* progress callback or of the writer is the one the caller gets.
C17_Abort ==
    ExCalled =>
        /\ LogCount("finish") <= 1
        /\ \A i \in 1..Len(x_out.log) :
              /\ x_out.log[i] = "finish" => (i > 1 /\ x_out.log[i - 1] = "processed")
              /\ x_out.log[i] = "features" => (i > 1 /\ x_out.log[i - 1] = "finish")
              /\ x_out.log[i] = "processed" => (i > 1 /\ x_out.log[i - 1] = "process")
        /\ ExReturned <=> x_out.returned
        /\ ExReturned => (LogCount("finish") = 1 /\ LogCount("features") = 1)
        /\ x_pc = "raised" =>
              /\ LogCount("finish") = 0 /\ LogCount("features") = 0
              /\ ~x_out.finished /\ ~x_out.returned
              /\ x_err # NoErr
              /\ ExStage = "processing" =>
                    x_err = IF x_out.fn = "user" /\ x_in.fails.callback > 0
                               /\ Len(Fracs) = x_in.fails.callback
                            THEN CallbackError
                            ELSE IF WriterError # "" THEN [err |-> WriterError, msg |-> <<>>]
                            ELSE StatError

\* the custom statistic raised for the second feature, after the record of
\* the first had been written
C17_Witness ==
    /\ x_pc = "raised"
    /\ x_err = StatError
    /\ Len(x_out.order) >= 1
    /\ x_out.log = <<"process">>

(***************************************************************************)
(* C21: a JSONWriter record has a property for every registered operation. *)
(***************************************************************************)
\* the names of the operations registered when call c was made that do
\* not carry the marker
Registered(c) ==
    {WriterAt(c).ops[k].name : k \in 1..Len(WriterAt(c).ops)} \ {n \in SeqSet(c.declared) : StartsWith(n, DeleteMarker)}
\* call c handed over a record that lacks the field of a registered operation
LacksField(c) == \E n \in Registered(c) : n \notin PropNames(c.rec.props)

\* the operations registered when call c was made give every map field as
\* many keys fields as values fields
Paired(c) ==
    \A m \in 1..Len(wr.map_fields) :
        Len(FieldsForStat(WriterAt(c), wr.map_fields[m].key_stat))
            = Len(FieldsForStat(WriterAt(c), wr.map_fields[m].val_stat))

\* C21: JSONWriter.write does not raise for a record that lacks the field
\* of a registered operation, and every emitted record has a property for
\* every operation without the marker that was registered when it was
\* written, None when the incoming record did not supply it.
C21_JsonComplete ==
    wr.kind = "json" =>
        /\ \A j \in 1..Len(wr_calls) : (LacksField(wr_calls[j]) /\ Paired(wr_calls[j])) => wr_calls[j].err = ""
        /\ \A i \in 1..Len(Succeeded) :
              LET c == Succeeded[i]
                  row == wr.rows[i].props
              IN  \A n \in Registered(c) :
                      /\ n \in PropNames(row)
                      /\ n \notin PropNames(c.rec.props) => PropGet(row, n) = NoneVal

(***************************************************************************)
(* C22: the order of the post-processing steps of JSONWriter.write.        *)
(***************************************************************************)
\* the map fields call c folds: [dst, keys, vals], the destination name and
\* the names of the keys field and the values field
Folds(c) ==
    UNION {LET mf == wr.map_fields[m]
               ks == FieldsForStat(WriterAt(c), mf.key_stat)
               vs == FieldsForStat(WriterAt(c), mf.val_stat)
           IN  {[dst |-> StrReplace(vs[j], StatStr(mf.val_stat), mf.field),
                 keys |-> ks[j], vals |-> vs[j]] : j \in 1..Len(vs)}
           : m \in 1..Len(wr.map_fields)}
\* the record of call c supplies every keys and values field as arrays of
\* one length
WellFormed(c) ==
    /\ Paired(c)
    /\ \A fo \in Folds(c) :
          /\ {fo.keys, fo.vals} \subseteq PropNames(c.rec.props)
          /\ TypeOf(PropGet(c.rec.props, fo.keys)) = "ndarray"
          /\ TypeOf(PropGet(c.rec.props, fo.vals)) = "ndarray"
          /\ Len(PropGet(c.rec.props, fo.keys).a) = Len(PropGet(c.rec.props, fo.vals).a)

C23_MemoAppendOnly ==
    /\ [](/\ \A e1, e2 \in memo : (e1.a = e2.a /\ e1.b = e2.b) => e1 = e2
          /\ \A e1, e2 \in cm_seen : (e1.a = e2.a /\ e1.b = e2.b) => e1.val = e2.val
          /\ \A e \in memo : \A r \in cm_seen : (e.a = r.a /\ e.b = r.b) => e.val = r.val)
    /\ [][memo \subseteq memo']_vars

\* two threads missed the same pair, and the second stored its value after
\* the first had returned
C23_Witness ==
    /\ \E t \in Threads : cm_pc[t] = "store" /\ MemoHas(memo, cm_arg[t][1], cm_arg[t][2])
    /\ [a |-> "A", b |-> "A2", val |-> TRUE] \in cm_seen
    /\ [a |-> "A2", b |-> "A", val |-> TRUE] \in memo

(***************************************************************************)
(* C24: the field names of callback operations.                            *)
(***************************************************************************)
IsCallback(req) == req.kind = "callable" /\ req.nargs \in {2, 3}
DummyStat(req) == IF req.nargs = 3 THEN "weighted_sum" ELSE "count"

\* C24: the operation a callable f yields for a pair is named as the
\* builder names a built-in stat over that pair, with the name of f in the
\* place of the stat name and the names of the sources as they are.
C24_CallbackNaming ==
    OpsReturned =>
        \A k \in 1..Len(CallItems) :
            IsCallback(CallItems[k]) =>
                \A i \in 1..NPairs(CallValues, CallWeights) :
                    LET op == ops_ret.ops[Offset(k) + i]
                    IN  op.name = FieldName(DummyStat(CallItems[k]), CallItems[k].fname,
                                            op.values, op.weights,
                                            NPairs(CallValues, CallWeights) > 1)

(***************************************************************************)
(* C25: unique operations in a request with map-field support.             *)
(***************************************************************************)
\* what the call returns without add_unique
Plain == PrepOps(ops_call.stats, ops_call.values, ops_call.weights, FALSE)

\* C25: a prep_ops call with add_unique whose requests can be built and
\* hold a unique operation returns; when they hold no frac or
\* weighted_frac operation it returns the requested operations and
\* nothing else.
C25_UniqueAccepted ==
    (OpsCalled /\ ops_call.add_unique /\ Plain.err = ""
        /\ \E i \in 1..Len(Plain.ops) : IsUnique(Plain.ops[i])) =>
            /\ ops_ret.err = ""
            /\ (\A i \in 1..Len(Plain.ops) : ~IsFrac(Plain.ops[i])) => ops_ret.ops = Plain.ops

(***************************************************************************)
(* C26: frac_as_map False in output_options.                               *)
(***************************************************************************)
\* the call with the entry frac_as_map left out of output_options
Omitted == [x_in EXCEPT !.frac_as_map = "absent"]
\* the records that call returns: the engine's records as a JSONWriter
\* without map fields emits them
OmittedRow(k) ==
    JsonWrite(RegisterOps(PrepWriter("absent"), x_ops), EngineRecord(x_ops, k)).w.rows[1]

\* C26: a call with frac_as_map False builds the operations of the call
\* without the entry, its writer has no map fields, it does not raise
\* while processing, and the records it has written are the records of
\* the call without the entry.
C26_FalseIsOmitted ==
    (ExCalled /\ x_in.frac_as_map = "false") =>
        /\ x_ops = ExPrepare(Omitted).ops
        /\ x_out.writer => x_out.jw.map_fields = <<>>
        /\ ~(x_pc = "raised" /\ ExStage = "processing")
        /\ \A i \in 1..Len(x_out.jw.rows) : x_out.jw.rows[i] = OmittedRow(x_out.order[i].f)

(***************************************************************************)
(* C27: the columns of a PandasWriter and its writes.                      *)
(***************************************************************************)
\* C27: whatever the order of declarations and writes on a PandasWriter,
\* every column list holds one entry per write made so far, and features()
\* builds a frame without raising.
C27_PandasAligned ==
    wr.kind = "pandas" =>
        /\ \A i \in 1..Len(wr.cols) : Len(wr.cols[i].val) = Len(wr_calls)
        /\ PandasFeatures(wr).err = ""

(***************************************************************************)
(* C28, C29: what read_window returns.                                     *)
(***************************************************************************)
HasRead == rd_out.res.kind # "none"

\* the stored cell behind cell (i, j) of the window read last
RawCell(i, j) == rd_src.mat[rd_out.win[2] + i][rd_out.win[1] + j]

\* the source applies a scale or an offset to what it reads
Scales(src) ==
    CASE src.kind = "gdal" -> \/ src.scale \notin {NoneVal, IntVal(1)}
                              \/ src.offset \notin {NoneVal, IntVal(0)}
      [] src.kind = "rasterio" -> src.scale # IntVal(1) \/ src.offset # IntVal(0)
      [] OTHER -> FALSE

\* C28: a GDAL or rasterio source that applies a scale, an offset or both
\* to a band with a nodata value (0 included) returns a masked array whose
\* mask is True exactly at the cells whose stored value is the nodata value.
C28_NodataMask ==
    (HasRead /\ Scales(rd_src) /\ rd_src.nodata # NoneVal) =>
        /\ rd_out.res.kind = "masked"
        /\ \A i \in 1..rd_out.win[4], j \in 1..rd_out.win[3] :
              rd_out.res.mask[i][j] = (RawCell(i, j) = rd_src.nodata.i)

\* C29: both NumPyRasterSource classes return, for a window inside the
\* array, the rows y0..y0+ny-1 and the columns x0..x0+nx-1: ny rows of nx
\* cells each, the same from either class.
C29_NumPyWindows ==
    (HasRead /\ rd_src.kind \in {"raster.numpy", "raster_source.numpy"}) =>
        LET w == rd_out.win
            data == rd_out.res.data
        IN  /\ Len(data) = w[4]
            /\ \A i \in 1..Len(data) :
                  /\ Len(data[i]) = w[3]
                  /\ \A j \in 1..Len(data[i]) : data[i][j] = RawCell(i, j)
            /\ RasterNumPyReadWindow(rd_src, w[1], w[2], w[3], w[4])
                   = RasterSourceNumPyReadWindow(rd_src, w[1], w[2], w[3], w[4])

(***************************************************************************)
(* C30: what the probes of prep_vec are offered.                           *)
(***************************************************************************)
\* the library takes the value: its open succeeds on the path, or the value
\* is one of its objects
Accepts(lib, vec) ==
    CASE lib = "osgeo" -> \/ IsPath(vec) /\ "osgeo" \in vec.opens
                          \/ vec.kind \in {"gdal.Dataset", "ogr.DataSource", "ogr.Layer"}
      [] lib = "fiona" -> \/ IsPath(vec) /\ "fiona" \in vec.opens
                          \/ vec.kind = "fiona.Collection"
      [] lib = "geopandas" -> vec.kind = "GeoDataFrame"
      [] lib = "qgis" -> vec.kind = "QgsVectorLayer"

\* C30: every probe finds in vec the value the caller passed, and the
\* failure "Unhandled feature datatype" is raised only when no installed
\* library takes that value.
C30_ProbesSeeInput ==
    /\ \A i \in 1..Len(pv_seen) : pv_seen[i].vec = pv_in.vec
    /\ (pv_pc = "raised" /\ pv_ret.msg = UnhandledFeature) =>
           \A lib \in pv_in.libs : ~Accepts(lib, pv_in.vec)

=============================================================================
